---- MODULE Spec2Model ----
(***************************************************************************)
(* ya-fetch: the request execution pipeline of src/src/index.ts.           *)
(*                                                                         *)
(* The file holds two variants of the pipeline: lines 1-376 (no retry,     *)
(* ResponseError carries `status`) and lines 378-724 (retry predicate and  *)
(* delay, results carry `attempt`).  options.version selects the variant.  *)
(*                                                                         *)
(* One step of the model is one turn of the JavaScript event loop: a       *)
(* macrotask (a timer callback, a transport settlement, the caller         *)
(* triggering its token, a user promise settling) or one queued promise    *)
(* reaction.  While promise reactions are queued (MicroPending) no         *)
(* macrotask runs; the caller's own synchronous code after request()       *)
(* returns (callerSync) runs before them.                                  *)
(***************************************************************************)
EXTENDS Integers, FiniteSets, Sequences, TLC

\* Largest limit N of the custom retry predicate `attempt < N && status === 500`.
MaxRetryLimit == 3

\* Attempt numbers the model keeps state for (one spare above the largest limit).
Attempts == 0..(MaxRetryLimit + 1)

\* Statuses the transport may answer with: success, permanent failure, transient failure.
Statuses == {200, 400, 500}

\* Values the request hook's external credential source may hold.
Tokens == {"token-1", "token-2"}

\* JavaScript `undefined` in a numeric field; an absent header.
Undefined == -1

\* The Retry-After header (in seconds) the server may put on its transient failures.
Directives == {Undefined, 2}

VARIABLES
    options,      \* the caller's (merged) options of the call
    honors,       \* whether the transport honours the cancellation token
    directive,    \* the Retry-After header of the server's transient failures
    userAborted,  \* the caller's AbortSignal is aborted
    started,      \* number of request() invocations made for the call so far
    callerSync,   \* the caller's synchronous code after request() is still running
    hook,         \* per attempt: state of the onRequest hook's promise
    headers,      \* per attempt: options.headers of the resolved options
    listen,       \* per attempt: the signal the abort listener was added to
    signal,       \* per attempt: options.signal handed to fetch
    timer,        \* per attempt: timerID's timer
    aborted,      \* per attempt: controller.signal.aborted
    transport,    \* per attempt: state of the fetch() invocation
    dispatched,   \* per attempt: what fetch() was invoked with
    p0,           \* per attempt: the promise built by `new Promise(executor)`
    p1,           \* per attempt: p0.then(retry step)      (variant 2; p0 itself in variant 1)
    p2,           \* per attempt: p1.then(options.onResponse)
    p3,           \* per attempt: p2.then(options.onSuccess, options.onFailure), the returned promise
    retryTimer,   \* per attempt: the retry delay's timer
    retryDelay,   \* per attempt: the delay (ms) the retry timer was set with
    clock,        \* the earliest time (ms since the call was issued) the state can occur at
    startedAt,    \* per attempt: the clock when request() was invoked for it
    receivedAt,   \* per attempt: the clock when its transport answered
    heap,         \* the objects of the instance factory: options objects, Headers, URLSearchParams
    instances,    \* the instances made by create() and extend()
    calls,        \* the calls issued through instances
    query         \* a query computation: its operation, its inputs and what it returned

vars == <<options, honors, directive, userAborted, started, callerSync, hook, headers, listen,
          signal, timer, aborted, transport, dispatched, p0, p1, p2, p3, retryTimer,
          retryDelay, clock, startedAt, receivedAt, heap, instances, calls, query>>

timeVars == <<retryDelay, clock, startedAt, receivedAt>>

factoryVars == <<heap, instances, calls>>

pipelineVars ==
    <<options, honors, directive, userAborted, started, callerSync, hook, headers, listen,
      signal, timer, aborted, transport, dispatched, p0, p1, p2, p3, retryTimer,
      retryDelay, clock, startedAt, receivedAt>>

promiseVars == <<p0, p1, p2, p3>>

----------------------------------------------------------------------------
(* Values *)

NoValue == [kind |-> "none"]

Pending == [st |-> "pending", val |-> NoValue]

Fulfilled(v) == [st |-> "fulfilled", val |-> v]

Rejected(e) == [st |-> "rejected", val |-> e]

TimeoutError == [kind |-> "TimeoutError"]

\* The DOMException the transport raises when its token is triggered.
AbortError == [kind |-> "AbortError"]

\* A network failure raised by the transport.
NetworkError == [kind |-> "TypeError", message |-> "Failed to fetch"]

\* The TypeError ("Invalid URL") of new URL(options.resource, options.base).
InvalidURL == [kind |-> "TypeError", message |-> "Invalid URL"]

\* What the user's onRequest hook throws.
HookError == [kind |-> "HookError"]

\* What the user's onSuccess hook throws.
SuccessError == [kind |-> "SuccessError"]

\* The custom error the user's onFailure hook throws in place of the one it received.
CustomError(e) == [kind |-> "CustomError", cause |-> e]

\* The Response the user's onFailure hook returns to recover.
Substitute ==
    [kind |-> "Response", status |-> 200, retryAfter |-> Undefined, attempt |-> Undefined,
     options |-> Undefined, from |-> "onFailure"]

\* The metadata of the first attempt attached to the result of every attempt.
DecorateAsFirst(status, retryAfter, k) ==
    [kind |-> "Response", status |-> status, retryAfter |-> retryAfter,
     attempt |-> IF options.version = 2 THEN 0 ELSE Undefined,
     options |-> 0, from |-> "transport"]

\* Object.assign(response, { options, attempt }): variant 1 attaches no attempt.
Decorate(status, retryAfter, k) ==
    [kind |-> "Response", status |-> status, retryAfter |-> retryAfter,
     attempt |-> IF options.version = 2 THEN k ELSE Undefined,
     options |-> k, from |-> "transport"]

\* Response.ok
Ok(response) == response.status >= 200 /\ response.status <= 299

\* new ResponseError(response): variant 2's class sets no `status`.
ResponseError(response) ==
    [kind |-> "ResponseError", response |-> response,
     status |-> IF options.version = 1 THEN response.status ELSE Undefined]

----------------------------------------------------------------------------
(* Signals *)

NoSignal == <<>>

UserSignal == <<"user">>

CtrlSignal(k) == <<"ctrl", k>>

IsAborted(s) ==
    IF s = NoSignal THEN FALSE
    ELSE IF s = UserSignal THEN userAborted
    ELSE aborted[s[2]]

----------------------------------------------------------------------------
(* Options *)

NoHeaders == [authorization |-> "absent"]

RetryOptions ==
    {[custom |-> FALSE, limit |-> 0], [custom |-> TRUE, limit |-> MaxRetryLimit]}

\* The combinations of lifecycle hooks a call is configured with: the defaults, each
\* kind of failure hook, a classification hook that accepts every status, and a
\* throwing success hook beside a recovering failure hook.
HookProfiles ==
    {[onResponse |-> "default", onSuccess |-> "none", onFailure |-> f] :
        f \in {"none", "rethrow", "throwOther", "returnResult", "returnPromise"}}
        \cup {[onResponse |-> "acceptAll", onSuccess |-> "none", onFailure |-> "none"],
              [onResponse |-> "default", onSuccess |-> "throws", onFailure |-> "returnResult"]}

\* What options.resource and options.base are: an absolute resource and no base
\* (DEFAULTS.base is undefined where there is no `location`), a relative resource
\* and no base, a relative resource and an absolute base.
Targets == {"absolute", "relative", "based"}

OptionSpace ==
    {[version |-> v, timeout |-> t, signal |-> s, onRequest |-> q,
      onResponse |-> h.onResponse, onSuccess |-> h.onSuccess, onFailure |-> h.onFailure,
      retry |-> r, target |-> u] :
        v \in {1, 2}, t \in {0, 10}, s \in {NoSignal, UserSignal},
        q \in {"default", "throws", "rejected", "async", "asyncReject"},
        h \in HookProfiles, r \in RetryOptions, u \in Targets}

\* new URL(options.resource, options.base) returns a URL.
ValidTarget == options.target # "relative"

----------------------------------------------------------------------------
(* Hooks and the retry policy *)

TransientStatuses == {408, 413, 429, 500, 502, 503, 504}

\* The default predicate with its attempt bound off by one.
DefaultRetryOffByOne(response) ==
    response.attempt <= 2 /\ response.status \in TransientStatuses

DefaultRetry(response) ==
    response.attempt < 2 /\ response.status \in TransientStatuses

CustomRetry(response) ==
    response.attempt < options.retry.limit /\ response.status = 500

ApplyRetry(response) ==
    IF options.retry.custom THEN CustomRetry(response) ELSE DefaultRetry(response)

\* The default delay with a product in place of the power: 0.3 * 2 * attempt * 1000.
DelayTimesAttempt(response) == 300 * 2 * response.attempt

\* DEFAULTS.delay: 0.3 * 2 ** response.attempt * 1000
DefaultDelay(response) == 300 * 2 ^ response.attempt

\* options.delay(response): the delay the retry timer is set with.
RetryDelay(response) == DefaultDelay(response)

\* The default classification without its throw.
OnResponseNeverThrows(result) == Fulfilled(result)

DefaultOnResponse(result) ==
    IF Ok(result) THEN Fulfilled(result) ELSE Rejected(ResponseError(result))

OnResponse(result) ==
    IF options.onResponse = "default" THEN DefaultOnResponse(result)
    ELSE Fulfilled(result)

\* What a promise adopts from a handler: a returned promise is unwrapped.
Adopt(x) == IF x.kind = "Promise" THEN Fulfilled(x.of) ELSE Fulfilled(x)

\* A failure hook in the way of a catch-all: the error is dropped and the call
\* resolves with nothing.
OnFailureSwallows(error) == Fulfilled(NoValue)

OnFailure(error) ==
    CASE options.onFailure = "rethrow"       -> Rejected(error)
      [] options.onFailure = "throwOther"    -> Rejected(CustomError(error))
      [] options.onFailure = "returnResult"  -> Adopt(Substitute)
      [] options.onFailure = "returnPromise" -> Adopt([kind |-> "Promise", of |-> Substitute])
      [] OTHER                               -> Rejected(error)

OnSuccess(result) ==
    IF options.onSuccess = "throws" THEN Rejected(SuccessError) ELSE Fulfilled(result)

\* The retry step retrying the first attempt only.
ThenRetryFirstOnly(k, x) ==
    IF x.st = "fulfilled" /\ options.version = 2 /\ k < 1 /\ ApplyRetry(x.val)
    THEN Pending
    ELSE x

\* p0.then(response => options.retry(response) ? new Promise(...) : response)
ThenRetry(k, x) ==
    IF x.st = "fulfilled" /\ options.version = 2 /\ k + 1 \in Attempts /\ ApplyRetry(x.val)
    THEN Pending
    ELSE x

\* .then(options.onResponse)
ThenResponse(x) == IF x.st = "fulfilled" THEN OnResponse(x.val) ELSE x

\* The last step with the failure hook left out: .then(options.onSuccess).
ThenFinalWithoutFailureHook(x) == IF x.st = "fulfilled" THEN OnSuccess(x.val) ELSE x

\* The last step as two: .then(options.onSuccess).catch(options.onFailure).
ThenFinalChained(x) ==
    LET y == IF x.st = "fulfilled" THEN OnSuccess(x.val) ELSE x
    IN  IF y.st = "rejected" THEN OnFailure(y.val) ELSE y

\* .then(options.onSuccess, options.onFailure)
ThenFinal(x) ==
    CASE x.st = "fulfilled" -> OnSuccess(x.val)
      [] x.st = "rejected"  -> OnFailure(x.val)
      [] OTHER              -> x

\* A promise whose resolve and reject keep acting after it has settled.
NeverSettled(k) == FALSE

\* A promise is settled once: later calls of its resolve and reject do nothing.
Settled(k) == p0[k].st # "pending"

\* resolve(x) / reject(x) of attempt k's executor, with the reactions that follow:
\* a settled promise ignores it; otherwise the chain of attempt k runs and, when it
\* ends, the outer attempts that wait on `resolve(request(options, attempt + 1))`.
Settle(k, x) ==
    IF Settled(k)
    THEN UNCHANGED promiseVars
    ELSE LET n1[j \in 0..k] ==
                 IF j = k THEN ThenRetry(k, x) ELSE ThenFinal(ThenResponse(n1[j + 1]))
         IN  /\ p0' = [p0 EXCEPT ![k] = x]
             /\ p1' = [j \in Attempts |-> IF j <= k THEN n1[j] ELSE p1[j]]
             /\ p2' = [j \in Attempts |-> IF j <= k THEN ThenResponse(n1[j]) ELSE p2[j]]
             /\ p3' = [j \in Attempts |->
                          IF j <= k THEN ThenFinal(ThenResponse(n1[j])) ELSE p3[j]]

\* setTimeout(() => resolve(request(options, attempt + 1)), options.delay(response)):
\* whether resolving attempt k with x starts the retry delay.
SchedulesRetry(k, x) ==
    ~Settled(k) /\ x.st = "fulfilled" /\ ThenRetry(k, x).st = "pending"

\* clearTimeout(timerID)
ClearTimeout(t) == IF t = "armed" THEN "cleared" ELSE t

----------------------------------------------------------------------------
(* Scheduling *)

\* The transport invoked on either outcome of the hook: .then(dispatch, dispatch).
HookSettledAllowsDispatch(k) == hook[k] \in {"resolved", "rejecting", "rejected"}

\* Promise.resolve(options.onRequest(url, options)).then(() => fetch(url, options)):
\* the reaction that invokes the transport runs only on the hook's fulfilment.
HookAllowsDispatch(k) == hook[k] = "resolved"

\* Promise reactions are queued: no macrotask runs before them.
MicroPending ==
    \E k \in Attempts :
        \/ HookAllowsDispatch(k) /\ transport[k] = "idle"
        \/ hook[k] = "rejecting"
        \/ transport[k] = "aborting"

----------------------------------------------------------------------------
(* The option model: mergeMaps and mergeOptions over a heap of objects *)

\* Most extend() calls made.
MaxExtends == 1

\* Most decode methods called on the promise of one call.
MaxDecodes == 2

\* Most times a hook re-issues a call with the options attached to its result.
MaxReissues == 2

\* The calls issued through the instances, concurrently.
CallNames == {"call-1", "call-2"}

\* undefined
Null == <<>>

\* Who allocates: the module (DEFAULTS), the code that creates and extends
\* instances, and each call.  A reference is <<allocator, n>>, the allocator's n-th
\* object, so that the identity of an object does not depend on how the calls
\* interleave.
Allocators == {"module", "instances"} \cup CallNames

\* The configurations a caller passes to create(), extend() and the verb methods:
\* resource, headers and params (plain objects, as their entries) and a JSON payload.
ConfigInputs ==
    {[resource |-> <<"http://localhost">>,
      headers |-> << <<"x-from", "website">> >>,
      params |-> << <<"accessToken", "1">> >>,
      json |-> FALSE],
     [resource |-> <<"/posts">>,
      headers |-> << <<"x-from", "app">>, <<"authorization", "Bearer token">> >>,
      params |-> << <<"accessToken", "2">>, <<"userId", "1">> >>,
      json |-> TRUE],
     [resource |-> <<>>, headers |-> <<>>, params |-> <<>>, json |-> FALSE]}

\* The configurations a caller passes to the verb methods.
CallInputs == {cfg \in ConfigInputs : cfg.resource # <<"http://localhost">>}

\* The module-level DEFAULTS object: no resource, headers, params or payload.
DefaultsObject ==
    [kind |-> "options", method |-> "none", resource |-> <<>>, headers |-> Null,
     params |-> Null, json |-> FALSE, body |-> "none", signal |-> NoSignal]

\* DEFAULTS is the module's first object.
DefaultsRef == <<"module", 1>>

\* The object a reference points to.
Deref(h, ref) == h[ref[1]][ref[2]]

\* The reference the next object allocated by `by` gets.
NextRef(h, by) == <<by, Len(h[by]) + 1>>

\* The heap with `object` at ref, which is an object of the heap or the next new one.
Store(h, ref, object) ==
    IF ref[2] = Len(h[ref[1]]) + 1
    THEN [h EXCEPT ![ref[1]] = Append(@, object)]
    ELSE [h EXCEPT ![ref[1]][ref[2]] = object]

\* A new object: the heap with it and the reference to it.
Alloc(h, by, object) == [heap |-> Store(h, NextRef(h, by), object), ref |-> NextRef(h, by)]

\* The object a caller passes: its headers and params, when given, are objects of
\* their own.
AllocConfig(h, by, cfg) ==
    LET hs == IF cfg.headers = <<>> THEN [heap |-> h, ref |-> Null]
              ELSE Alloc(h, by, [kind |-> "Object", list |-> cfg.headers])
        ps == IF cfg.params = <<>> THEN [heap |-> hs.heap, ref |-> Null]
              ELSE Alloc(hs.heap, by, [kind |-> "Object", list |-> cfg.params])
    IN  Alloc(ps.heap, by,
              [kind |-> "options",
               method |-> IF "method" \in DOMAIN cfg THEN cfg.method ELSE "none",
               resource |-> cfg.resource, headers |-> hs.ref,
               params |-> ps.ref, json |-> cfg.json,
               body |-> IF "body" \in DOMAIN cfg THEN cfg.body ELSE "none",
               signal |-> NoSignal])

\* The entries new M(init) holds: none for undefined, a copy of init's otherwise.
Entries(h, init) == IF init = Null THEN <<>> ELSE Deref(h, init).list

\* Headers.get(name): the values of the name, in order (joined by ", ").
HeaderGet(list, name) ==
    LET hit == SelectSeq(list, LAMBDA e : e[1] = name)
    IN  [i \in 1..Len(hit) |-> hit[i][2]]

\* URLSearchParams.get(name): the first value of the name, or null.
ParamGet(list, name) ==
    LET hit == SelectSeq(list, LAMBDA e : e[1] = name)
    IN  IF hit = <<>> THEN "null" ELSE hit[1][2]

\* Headers.append(name, value) in place of Headers.set(name, value).
HeadersAppend(list, name, value) == list \o << <<name, value>> >>

\* Headers.set(name, value)
HeadersSet(list, name, value) ==
    SelectSeq(list, LAMBDA e : e[1] # name) \o << <<name, value>> >>

\* The names a container has entries for.
Names(list) == {list[i][1] : i \in 1..Len(list)}

\* mergeMaps returning its left argument when that is a container of the class already.
ReuseLeftContainer(h, by, M, left) ==
    IF left # Null /\ Deref(h, left).kind = M THEN left ELSE NextRef(h, by)

\* const result = new M(left): a new container.
ResultContainer(h, by, M, left) == NextRef(h, by)

\* mergeMaps that starts from an empty container: new M() in place of new M(left).
AppendedToEmpty(l, r) == r

\* new M(right).forEach((value, key) => result.append(key, value))
Appended(l, r) == l \o r

\* mergeMaps(M, left, right)
MergeMaps(h, by, M, left, right) ==
    LET ref == ResultContainer(h, by, M, left)
    IN  [heap |-> Store(h, ref, [kind |-> M, list |-> Appended(Entries(h, left), Entries(h, right))]),
         ref |-> ref]

\* The merged path fragment with the child's fragment overwriting the parent's.
ResourceOverwritten(left, right) == IF right # <<>> THEN right ELSE left

\* (left.resource || '') + (right.resource || '')
MergeResource(left, right) == left \o right

\* Object.assign(left, right, ...): merging into the left object.
LeftAsTarget(h, by, left) == left

\* Object.assign({}, left, right, ...): merging into a new object.
MergeTarget(h, by, left) == NextRef(h, by)

\* mergeOptions(left, right): the scalar fields of right, where defined, override
\* those of left; resource, headers and params are merged.
MergeOptions(h, by, left, right) ==
    LET l == Deref(h, left)
        r == Deref(h, right)
        hm == MergeMaps(h, by, "Headers", l.headers, r.headers)
        pm == MergeMaps(hm.heap, by, "URLSearchParams", l.params, r.params)
        ref == MergeTarget(pm.heap, by, left)
        merged ==
            [kind |-> "options",
             method |-> IF r.method # "none" THEN r.method ELSE l.method,
             resource |-> MergeResource(l.resource, r.resource),
             headers |-> hm.ref,
             params |-> pm.ref,
             json |-> l.json \/ r.json,
             body |-> IF r.body # "none" THEN r.body ELSE l.body,
             signal |-> IF r.signal # NoSignal THEN r.signal ELSE l.signal]
    IN  [heap |-> Store(pm.heap, ref, merged), ref |-> ref]

\* request() handing the object it was given to the executor, unmerged.
RequestOptionsReused(h, by, base) == [heap |-> h, ref |-> base]

\* request() merging the object it was given with itself.
RequestOptionsOnItself(h, by, base) == MergeOptions(h, by, base, base)

\* const options = mergeOptions(DEFAULTS, baseOptions): the resolved options of an
\* attempt of request(baseOptions, attempt).
RequestOptions(h, by, base) == MergeOptions(h, by, DefaultsRef, base)

\* Nothing has been created: the heap holds DEFAULTS.
NoInstances ==
    /\ heap = [by \in Allocators |-> IF by = "module" THEN <<DefaultsObject>> ELSE <<>>]
    /\ instances = <<>>
    /\ calls = [c \in CallNames |-> [state |-> "none"]]

\* No query computation has been made.
NoQuery == [op |-> "none"]

\* No call has been issued.
Idle ==
    /\ query = NoQuery
    /\ userAborted = FALSE
    /\ started = 0
    /\ callerSync = FALSE
    /\ hook = [k \in Attempts |-> "none"]
    /\ headers = [k \in Attempts |-> NoHeaders]
    /\ listen = [k \in Attempts |-> NoSignal]
    /\ signal = [k \in Attempts |-> NoSignal]
    /\ timer = [k \in Attempts |-> "none"]
    /\ aborted = [k \in Attempts |-> FALSE]
    /\ transport = [k \in Attempts |-> "idle"]
    /\ dispatched = [k \in Attempts |-> [sent |-> FALSE, headers |-> NoHeaders, aborted |-> FALSE]]
    /\ p0 = [k \in Attempts |-> Pending]
    /\ p1 = [k \in Attempts |-> Pending]
    /\ p2 = [k \in Attempts |-> Pending]
    /\ p3 = [k \in Attempts |-> Pending]
    /\ retryTimer = [k \in Attempts |-> "none"]
    /\ retryDelay = [k \in Attempts |-> Undefined]
    /\ clock = 0
    /\ startedAt = [k \in Attempts |-> Undefined]
    /\ receivedAt = [k \in Attempts |-> Undefined]

\* The calls through the pipeline: every combination of options with an absolute
\* resource and with an unresolvable one; a relative resource under a base with the
\* default hooks.
Init ==
    /\ options \in {o \in OptionSpace :
                       /\ o.version = 1 => ~o.retry.custom
                       /\ o.target = "based" =>
                              /\ o.onRequest = "default" /\ o.onResponse = "default"
                              /\ o.onSuccess = "none" /\ o.onFailure = "none"
                              /\ ~o.retry.custom /\ o.signal = NoSignal}
    /\ honors \in IF options.timeout > 0 \/ options.signal # NoSignal THEN BOOLEAN ELSE {TRUE}
    /\ directive \in IF options.version = 2 THEN Directives ELSE {Undefined}
    /\ Idle
    /\ NoInstances

----------------------------------------------------------------------------
(* Cancellation *)

\* controller.abort() on the controllers in D and/or the caller triggering its token
\* (userNow): per attempt, whether its 'abort' listener runs (fires) and whether its
\* own controller's signal dispatches 'abort' (evt); an aborted signal dispatches
\* nothing again, and a listener added to it later never runs.
AbortWave(userNow, D) ==
    LET w[j \in Attempts] ==
            LET fires ==
                    /\ j < started
                    /\ listen[j] # NoSignal
                    /\ IF listen[j] = UserSignal THEN userNow ELSE w[listen[j][2]].evt
            IN  [fires |-> fires, evt |-> ~aborted[j] /\ (j \in D \/ fires)]
    IN  w

\* The 'abort' listener without its clearTimeout.
ListenerKeepsTimer(t) == t

\* options.signal.addEventListener('abort', () => { clearTimeout(timerID); ... })
ListenerTimer(t) == ClearTimeout(t)

\* The state of the tokens, timers and transports after the wave: a listener runs
\* clearTimeout(timerID) and controller.abort(); a transport that honours its token
\* rejects its promise with AbortError.
Abort(userNow, D, fired) ==
    LET w == AbortWave(userNow, D)
        after(s) ==
            IF s = NoSignal THEN FALSE
            ELSE IF s = UserSignal THEN userAborted \/ userNow
            ELSE aborted[s[2]] \/ w[s[2]].evt
    IN  /\ aborted' = [j \in Attempts |-> aborted[j] \/ w[j].evt]
        /\ timer' = [j \in Attempts |->
                        IF j \in fired THEN "fired"
                        ELSE IF w[j].fires THEN ListenerTimer(timer[j])
                        ELSE timer[j]]
        /\ transport' = [j \in Attempts |->
                            IF transport[j] = "inflight" /\ honors /\ after(signal[j])
                            THEN "aborting"
                            ELSE transport[j]]

----------------------------------------------------------------------------
(* The executor of request() *)

\* options.onRequest(url, options) as called inside the executor.
HookStart ==
    CASE options.onRequest = "default"  -> "resolved"
      [] options.onRequest = "throws"   -> "threw"
      [] options.onRequest = "rejected" -> "rejecting"
      [] OTHER                          -> "pending"

\* An exception of the executor escaping request(): no promise is rejected.
ThrowEscapes(k, e) == UNCHANGED promiseVars

\* An exception thrown inside the executor of new Promise(executor) rejects the
\* promise under construction.
ThrowInExecutor(k, e) == Settle(k, Rejected(e))

\* request(baseOptions, k): mergeOptions copies the headers; new URL(...) throws on
\* an unresolvable target; a timeout > 0 arms the timer, listens to the given
\* signal and replaces it by the controller's; the hook is called; an exception
\* thrown on the way rejects the promise under construction and ends the executor.
Executor(k, baseHeaders, baseSignal) ==
    /\ started' = k + 1
    /\ headers' = [headers EXCEPT ![k] = baseHeaders]
    /\ IF ~ValidTarget
       THEN /\ ThrowInExecutor(k, InvalidURL)
            /\ UNCHANGED <<timer, listen, signal, hook>>
       ELSE /\ IF options.timeout > 0
               THEN /\ timer' = [timer EXCEPT ![k] = "armed"]
                    /\ listen' = [listen EXCEPT ![k] = baseSignal]
                    /\ signal' = [signal EXCEPT ![k] = CtrlSignal(k)]
               ELSE /\ signal' = [signal EXCEPT ![k] = baseSignal]
                    /\ UNCHANGED <<timer, listen>>
            /\ hook' = [hook EXCEPT ![k] = HookStart]
            /\ IF HookStart = "threw"
               THEN ThrowInExecutor(k, HookError)
               ELSE UNCHANGED promiseVars
    /\ UNCHANGED <<factoryVars, query, options, honors, directive, userAborted, aborted, transport, dispatched>>

\* A timer set at time `at` with delay d runs its callback no earlier than at + d.
TimerDue(at, d) == IF clock > at + d THEN clock ELSE at + d

\* The caller issues the call.
Request ==
    /\ started = 0
    /\ Executor(0, NoHeaders, options.signal)
    /\ callerSync' = TRUE
    /\ startedAt' = [startedAt EXCEPT ![0] = clock]
    /\ UNCHANGED <<retryTimer, retryDelay, clock, receivedAt>>

\* The retry delay elapses: resolve(request(options, attempt + 1)) with the resolved
\* options of attempt k.
RetryFire(k) ==
    /\ retryTimer[k] = "pending"
    /\ ~MicroPending
    /\ retryTimer' = [retryTimer EXCEPT ![k] = "fired"]
    /\ clock' = TimerDue(receivedAt[k], retryDelay[k])
    /\ startedAt' = [startedAt EXCEPT ![k + 1] = clock']
    /\ Executor(k + 1, headers[k], signal[k])
    /\ callerSync' = FALSE
    /\ UNCHANGED <<retryDelay, receivedAt>>

----------------------------------------------------------------------------
(* The request hook and the transport *)

\* fetch() given the options as they were before the request hook ran.
DispatchedBeforeHook(k) ==
    [sent |-> TRUE, headers |-> IF k = 0 THEN NoHeaders ELSE headers[k - 1],
     aborted |-> IsAborted(signal[k])]

\* What fetch(url, options) reads from the resolved options when it is invoked.
DispatchedRequest(k) ==
    [sent |-> TRUE, headers |-> headers[k], aborted |-> IsAborted(signal[k])]

\* .then(() => fetch(url, options)): runs once the hook's promise has resolved.
Dispatch(k) ==
    /\ HookAllowsDispatch(k)
    /\ transport[k] = "idle"
    /\ dispatched' = [dispatched EXCEPT ![k] = DispatchedRequest(k)]
    /\ transport' = [transport EXCEPT ![k] =
                         IF honors /\ IsAborted(signal[k]) THEN "aborting" ELSE "inflight"]
    /\ callerSync' = FALSE
    /\ UNCHANGED <<factoryVars, query, options, honors, directive, userAborted, started, hook, headers, listen, signal,
                   timer, aborted, retryTimer, timeVars>>
    /\ UNCHANGED promiseVars

\* The asynchronous hook finishes: it sets the Authorization header from its source.
HookResolve(k, token) ==
    /\ hook[k] = "pending"
    /\ options.onRequest = "async"
    /\ ~MicroPending
    /\ hook' = [hook EXCEPT ![k] = "resolved"]
    /\ headers' = [headers EXCEPT ![k].authorization = token]
    /\ callerSync' = FALSE
    /\ UNCHANGED <<factoryVars, query, options, honors, directive, userAborted, started, listen, signal, timer, aborted,
                   transport, dispatched, retryTimer, timeVars>>
    /\ UNCHANGED promiseVars

\* The asynchronous hook's promise rejects.
HookReject(k) ==
    /\ hook[k] = "pending"
    /\ options.onRequest = "asyncReject"
    /\ ~MicroPending
    /\ hook' = [hook EXCEPT ![k] = "rejecting"]
    /\ callerSync' = FALSE
    /\ UNCHANGED <<factoryVars, query, options, honors, directive, userAborted, started, headers, listen, signal, timer,
                   aborted, transport, dispatched, retryTimer, timeVars>>
    /\ UNCHANGED promiseVars

\* The hook's rejection reaches .then(resolve, reject).then(() => clearTimeout(timerID)).
HookRejectSettle(k) ==
    /\ hook[k] = "rejecting"
    /\ hook' = [hook EXCEPT ![k] = "rejected"]
    /\ Settle(k, Rejected(HookError))
    /\ timer' = [timer EXCEPT ![k] = ClearTimeout(timer[k])]
    /\ callerSync' = FALSE
    /\ UNCHANGED <<factoryVars, query, options, honors, directive, userAborted, started, headers, listen, signal,
                   aborted, transport, dispatched, retryTimer, timeVars>>

\* The chain without its last step .then(() => clearTimeout(timerID)).
TimerKeptAfterSettle(k) == timer[k]

\* The timer of attempt k after its transport chain has settled.
TimerAfterSettle(k) == ClearTimeout(timer[k])

\* The transport answers: Object.assign(response, { options, attempt }), resolve,
\* clearTimeout; in variant 2 the retry step may start the retry delay.
TransportRespond(k, status, retryAfter) ==
    /\ transport[k] = "inflight"
    /\ ~MicroPending
    /\ transport' = [transport EXCEPT ![k] = "responded"]
    /\ receivedAt' = [receivedAt EXCEPT ![k] = clock]
    /\ Settle(k, Fulfilled(Decorate(status, retryAfter, k)))
    /\ IF SchedulesRetry(k, Fulfilled(Decorate(status, retryAfter, k)))
       THEN /\ retryTimer' = [retryTimer EXCEPT ![k] = "pending"]
            /\ retryDelay' = [retryDelay EXCEPT ![k] =
                                  RetryDelay(Decorate(status, retryAfter, k))]
       ELSE UNCHANGED <<retryTimer, retryDelay>>
    /\ timer' = [timer EXCEPT ![k] = TimerAfterSettle(k)]
    /\ callerSync' = FALSE
    /\ UNCHANGED <<factoryVars, query, options, honors, directive, userAborted, started, hook, headers, listen, signal,
                   aborted, dispatched, clock, startedAt>>

\* The transport fails with a network error: reject, clearTimeout.
TransportFail(k) ==
    /\ transport[k] = "inflight"
    /\ ~MicroPending
    /\ transport' = [transport EXCEPT ![k] = "failed"]
    /\ Settle(k, Rejected(NetworkError))
    /\ timer' = [timer EXCEPT ![k] = TimerAfterSettle(k)]
    /\ callerSync' = FALSE
    /\ UNCHANGED <<factoryVars, query, options, honors, directive, userAborted, started, hook, headers, listen, signal,
                   aborted, dispatched, retryTimer, timeVars>>

\* The transport's AbortError reaches .then(resolve, reject).then(clearTimeout).
AbortSettle(k) ==
    /\ transport[k] = "aborting"
    /\ transport' = [transport EXCEPT ![k] = "aborted"]
    /\ Settle(k, Rejected(AbortError))
    /\ timer' = [timer EXCEPT ![k] = TimerAfterSettle(k)]
    /\ callerSync' = FALSE
    /\ UNCHANGED <<factoryVars, query, options, honors, directive, userAborted, started, hook, headers, listen, signal,
                   aborted, dispatched, retryTimer, timeVars>>

----------------------------------------------------------------------------
(* The timer and the caller's token *)

\* The timer callback without controller.abort().
TimerAbortsNothing(k) == {}

\* What the timer callback rejects the call with.
TimerRejection == Rejected(TimeoutError)

\* The controllers the timer callback of attempt k aborts.
TimerAborts(k) == {k}

\* setTimeout(() => { reject(new TimeoutError()); controller.abort() }, options.timeout)
TimerFire(k) ==
    /\ timer[k] = "armed"
    /\ ~MicroPending
    /\ Settle(k, TimerRejection)
    /\ Abort(FALSE, TimerAborts(k), {k})
    /\ clock' = TimerDue(startedAt[k], options.timeout)
    /\ callerSync' = FALSE
    /\ UNCHANGED <<factoryVars, query, options, honors, directive, userAborted, started, hook, headers, listen, signal,
                   dispatched, retryTimer, retryDelay, startedAt, receivedAt>>

\* The caller triggers its own token, from a task of its own or synchronously after
\* request() returned.
UserAbort ==
    /\ options.signal = UserSignal
    /\ ~userAborted
    /\ ~MicroPending \/ callerSync
    /\ userAborted' = TRUE
    /\ Abort(TRUE, {}, {})
    /\ UNCHANGED <<factoryVars, query, options, honors, directive, started, callerSync, hook, headers, listen, signal,
                   dispatched, retryTimer, timeVars>>
    /\ UNCHANGED promiseVars

----------------------------------------------------------------------------
Next ==
    \/ Request
    \/ \E k \in Attempts : RetryFire(k)
    \/ \E k \in Attempts : Dispatch(k)
    \/ \E k \in Attempts, token \in Tokens : HookResolve(k, token)
    \/ \E k \in Attempts : HookReject(k)
    \/ \E k \in Attempts : HookRejectSettle(k)
    \/ \E k \in Attempts, status \in Statuses :
           TransportRespond(k, status, IF status = 500 THEN directive ELSE Undefined)
    \/ \E k \in Attempts : TransportFail(k)
    \/ \E k \in Attempts : AbortSettle(k)
    \/ \E k \in Attempts : TimerFire(k)
    \/ UserAbort

Spec == Init /\ [][Next]_vars

\* What the event loop guarantees: a timer that stays armed has its callback run, and
\* a queued promise reaction runs.  Nothing obliges the transport to answer, the
\* user's hook promise to settle, or the caller to trigger its token.
Fairness ==
    /\ \A k \in Attempts : WF_vars(TimerFire(k))
    /\ \A k \in Attempts : WF_vars(RetryFire(k))
    /\ \A k \in Attempts : WF_vars(Dispatch(k))
    /\ \A k \in Attempts : WF_vars(HookRejectSettle(k))
    /\ \A k \in Attempts : WF_vars(AbortSettle(k))

FairSpec == Spec /\ Fairness

\* The collaborators do their part: a transport invocation in flight settles, with
\* an answer or a network error, and a pending request hook returns, resolving or
\* rejecting its promise.
Responsive ==
    /\ \A k \in Attempts :
           WF_vars(\/ \E status \in Statuses :
                          TransportRespond(k, status,
                                           IF status = 500 THEN directive ELSE Undefined)
                   \/ TransportFail(k))
    /\ \A k \in Attempts : WF_vars(\E token \in Tokens : HookResolve(k, token))
    /\ \A k \in Attempts : WF_vars(HookReject(k))

\* The calls under DEFAULTS.retry and DEFAULTS.delay.
DefaultPolicyInit == Init /\ ~options.retry.custom

\* A call under the default retry policy, issued on an event loop that runs its
\* timers and reactions, with collaborators that do their part.
TerminationSpec ==
    /\ DefaultPolicyInit
    /\ [][Next]_vars
    /\ WF_vars(Request)
    /\ Fairness
    /\ Responsive

----------------------------------------------------------------------------
(* The instance factory: create, extend and the verb methods *)

\* The signal of the controller made for attempt k of call c.
CallSignal(c, k) == <<c, k>>

\* What fetch(url, options) has not been given yet.
NotDispatched ==
    [method |-> "none", path |-> <<>>, query |-> <<>>, headers |-> <<>>, body |-> "none",
     signal |-> NoSignal]

\* The executor's writes to the resolved options o of a call: a JSON payload sets
\* the body and the content-type header; the timeout replaces options.signal by the
\* controller's.
Materialize(h, o, token) ==
    LET hs == Deref(h, o).headers
        json == Deref(h, o).json
    IN  [h EXCEPT ![o[1]][o[2]].body = IF json THEN "json-text" ELSE @,
                  ![o[1]][o[2]].signal = token,
                  ![hs[1]][hs[2]].list =
                      IF json THEN HeadersSet(@, "content-type", "application/json") ELSE @]

\* create(baseOptions): the instance keeps the caller's object as its base.
Create(cfg) ==
    /\ instances = <<>>
    /\ LET a == AllocConfig(heap, "instances", cfg)
       IN  /\ heap' = a.heap
           /\ instances' = <<[base |-> a.ref, input |-> a.ref, parent |-> 0, given |-> cfg]>>
    /\ UNCHANGED calls
    /\ UNCHANGED <<pipelineVars, query>>

\* instance.extend(options): create(mergeOptions(baseOptions, options))
Extend(i, cfg) ==
    /\ i \in 1..Len(instances)
    /\ Len(instances) < 1 + MaxExtends
    /\ LET a == AllocConfig(heap, "instances", cfg)
           m == MergeOptions(a.heap, "instances", instances[i].base, a.ref)
       IN  /\ heap' = m.heap
           /\ instances' = Append(instances, [base |-> m.ref, input |-> a.ref, parent |-> i,
                                               given |-> cfg])
    /\ UNCHANGED calls
    /\ UNCHANGED <<pipelineVars, query>>

\* instance.get(resource, options): request(mergeOptions(baseOptions, Object.assign(
\* { method }, { resource }, options))), and request's own mergeOptions(DEFAULTS,
\* baseOptions) and executor, up to the call of the request hook.  The call record
\* keeps the resolved options object of each attempt, the number of completed runs
\* of the request hook and the objects fetch was called with.
IssueCall(c, i, cfg) ==
    /\ calls[c].state = "none"
    /\ i \in 1..Len(instances)
    /\ LET a == AllocConfig(heap, c, [method |-> "get"] @@ cfg)
           m1 == MergeOptions(a.heap, c, instances[i].base, a.ref)
           m2 == RequestOptions(m1.heap, c, m1.ref)
       IN  /\ heap' = Materialize(m2.heap, m2.ref, CallSignal(c, 0))
           /\ calls' = [calls EXCEPT ![c] =
                  [state |-> "issued", inst |-> i, given |-> cfg, input |-> a.ref,
                   first |-> m2.ref,
                   options |-> m2.ref,
                   resolved |-> <<m2.ref>>, hookRuns |-> 0, fetched |-> <<>>,
                   reissues |-> 0,
                   attempt |-> 0, hook |-> "pending", decoded |-> FALSE, accept |-> "none",
                   early |-> FALSE, decodes |-> <<>>, bodyUsed |-> FALSE, clones |-> 0,
                   timer |-> "armed",
                   tokenAborted |-> FALSE, outcome |-> "pending", sent |-> FALSE,
                   dispatched |-> NotDispatched]]
    /\ UNCHANGED instances
    /\ UNCHANGED <<pipelineVars, query>>

\* The credential the request hook of call c reads from its source.
Credential(c) == <<"Bearer", c>>

\* The retry option of the calls: ({ attempt, status }) => attempt < 1 && status === 500
RetryOnce(response) == response.attempt < 1 /\ response.status = 500

\* The request hook of call c sets the Authorization header of the resolved options.
HookSetsHeader(c) ==
    /\ calls[c].state = "issued"
    /\ calls[c].hook = "pending"
    /\ LET hs == Deref(heap, calls[c].options).headers
       IN  heap' = [heap EXCEPT ![hs[1]][hs[2]].list =
                        HeadersSet(@, "authorization", Credential(c))]
    /\ calls' = [calls EXCEPT ![c].hook = "resolved", ![c].hookRuns = @ + 1]
    /\ UNCHANGED instances
    /\ UNCHANGED <<pipelineVars, query>>

\* CONTENT_TYPES: the accept header of each decode method.
ContentTypes ==
    [json |-> "application/json", text |-> "text/*", formData |-> "multipart/form-data",
     arrayBuffer |-> "*/*", blob |-> "*/*", void |-> "*/*"]

\* Nothing of call c has run since the verb method returned: the caller's
\* synchronous code is still running.
Fresh(c) ==
    /\ calls[c].attempt = 0
    /\ calls[c].hook = "pending"
    /\ calls[c].timer = "armed"
    /\ ~calls[c].sent

\* promise[key]() on the promise the call returned: options.headers.set('accept',
\* value) on the resolved options of the first attempt, and a new promise chained
\* to the returned one.  The call record keeps the method called last and whether
\* every decode method so far was called while the call was fresh.
DecodeCall(c, key) ==
    /\ calls[c].state = "issued"
    /\ Len(calls[c].decodes) < MaxDecodes
    /\ LET hs == Deref(heap, calls[c].first).headers
       IN  heap' = [heap EXCEPT ![hs[1]][hs[2]].list =
                        HeadersSet(@, "accept", ContentTypes[key])]
    /\ calls' = [calls EXCEPT ![c].decoded = TRUE,
                              ![c].accept = key,
                              ![c].early = Fresh(c) /\ (calls[c].decoded => @),
                              ![c].decodes = Append(@, [key |-> key, value |-> "pending"])]
    /\ UNCHANGED instances
    /\ UNCHANGED <<pipelineVars, query>>

\* promise.json(), once.
DecodeSetsAccept(c) ==
    /\ calls[c].state = "issued"
    /\ ~calls[c].decoded
    /\ DecodeCall(c, "json")

\* The call has settled: resolved with its result or rejected with an error.
CallSettled(c) == calls[c].outcome \in {"resolved", "ResponseError", "TimeoutError"}

\* Decode methods that read the result's own body: result[key]() without clone().
OwnBodyUsedAfter(key, used) == used \/ key # "void"

\* result.clone()[key]() reads the clone's body: the result's own body stays as it is.
BodyUsedAfter(key, used) == used

\* A decode method that clones whatever its key is.
ClonesAlways(key) == TRUE

\* key === 'void' ? undefined : result.clone()[key]()
Clones(key) == key # "void"

\* What the promise of a decode method settles with once the call has: the call's
\* error if it rejected; undefined for void; the TypeError of clone() if the
\* result's body was used; else the body read as the method reads it.
DecodeValue(c, key) ==
    IF calls[c].outcome # "resolved" THEN calls[c].outcome
    ELSE IF ~Clones(key) THEN "undefined"
    ELSE IF calls[c].bodyUsed THEN "TypeError"
    ELSE key

\* The reaction of the oldest decode promise of call c not settled yet.
DecodeSettles(c) ==
    /\ calls[c].state = "issued"
    /\ CallSettled(c)
    /\ \E n \in 1..Len(calls[c].decodes) :
           /\ calls[c].decodes[n].value = "pending"
           /\ \A m \in 1..(n - 1) : calls[c].decodes[m].value # "pending"
           /\ LET key == calls[c].decodes[n].key
                  cloned == calls[c].outcome = "resolved" /\ Clones(key)
              IN  calls' = [calls EXCEPT
                      ![c].decodes[n].value = DecodeValue(c, key),
                      ![c].clones = IF cloned THEN @ + 1 ELSE @,
                      ![c].bodyUsed = IF cloned /\ ~@ THEN BodyUsedAfter(key, @) ELSE @]
    /\ UNCHANGED <<heap, instances>>
    /\ UNCHANGED <<pipelineVars, query>>

\* What fetch(url, options) reads: the target built from options.resource and
\* options.params, and the headers, body and signal of the resolved options.
Resolved(h, o) ==
    [method |-> Deref(h, o).method,
     path |-> Deref(h, o).resource, query |-> Entries(h, Deref(h, o).params),
     headers |-> Entries(h, Deref(h, o).headers), body |-> Deref(h, o).body,
     signal |-> Deref(h, o).signal]

\* .then(() => fetch(url, options))
SendCall(c) ==
    /\ calls[c].state = "issued"
    /\ calls[c].hook = "resolved"
    /\ ~calls[c].sent
    /\ calls' = [calls EXCEPT ![c].sent = TRUE,
                              ![c].fetched = Append(@, calls[c].options),
                              ![c].dispatched = Resolved(heap, calls[c].options)]
    /\ UNCHANGED <<heap, instances>>
    /\ UNCHANGED <<pipelineVars, query>>

\* The timer of call c fires: reject(new TimeoutError()); controller.abort()
CallTimerFires(c) ==
    /\ calls[c].state = "issued"
    /\ calls[c].timer = "armed"
    /\ calls' = [calls EXCEPT ![c].timer = "fired",
                              ![c].tokenAborted = TRUE,
                              ![c].outcome = IF @ = "pending" THEN "TimeoutError" ELSE @]
    /\ UNCHANGED <<heap, instances>>
    /\ UNCHANGED <<pipelineVars, query>>

\* The transport answers call c: the timer is cleared; a result the retry predicate
\* accepts (retries) starts the retry delay, another settles the call.
Answered(c, status, retries) ==
    /\ calls[c].state = "issued"
    /\ calls[c].sent
    /\ calls[c].outcome = "pending"
    /\ calls' = [calls EXCEPT
           ![c].timer = ClearTimeout(@),
           ![c].outcome =
               IF retries
               THEN "retrying"
               ELSE IF status \in 200..299 THEN "resolved" ELSE "ResponseError"]
    /\ UNCHANGED <<heap, instances>>
    /\ UNCHANGED <<pipelineVars, query>>

\* The transport answers a call whose retry option is RetryOnce.
CallAnswered(c, status) ==
    Answered(c, status, RetryOnce([attempt |-> calls[c].attempt, status |-> status]))

\* The retry option ({ attempt, status }) => attempt < MaxRetryLimit && status === 500
RetryLimited(response) == response.attempt < MaxRetryLimit /\ response.status = 500

\* The transport answers a call whose retry option is RetryLimited.
CallAnsweredLimited(c, status) ==
    Answered(c, status, RetryLimited([attempt |-> calls[c].attempt, status |-> status]))

\* request(baseOptions, attempt + 1) given the object the caller passed.
RetryFromInput(c) == calls[c].input

\* request(options, attempt + 1): the retry is given the resolved options of the
\* attempt before.
RetryBase(c) == calls[c].options

\* The retry delay of call c elapses: request(options, attempt + 1) merges DEFAULTS
\* with the resolved options of the attempt before and runs the executor again.
CallRetries(c) ==
    /\ calls[c].state = "issued"
    /\ calls[c].outcome = "retrying"
    /\ LET m == RequestOptions(heap, c, RetryBase(c))
       IN  /\ heap' = Materialize(m.heap, m.ref, CallSignal(c, calls[c].attempt + 1))
           /\ calls' = [calls EXCEPT ![c].options = m.ref,
                                     ![c].resolved = Append(@, m.ref),
                                     ![c].attempt = @ + 1,
                                     ![c].hook = "pending",
                                     ![c].timer = "armed",
                                     ![c].tokenAborted = FALSE,
                                     ![c].outcome = "pending",
                                     ![c].sent = FALSE]
    /\ UNCHANGED instances
    /\ UNCHANGED <<pipelineVars, query>>

\* No call goes through the pipeline modelled above.
FactoryInit ==
    /\ options = CHOOSE o \in OptionSpace :
                     /\ o.version = 2 /\ o.timeout > 0 /\ o.signal = NoSignal
                     /\ o.target = "absolute"
                     /\ o.onRequest = "async" /\ ~o.retry.custom
                     /\ o.onResponse = "default" /\ o.onSuccess = "none"
                     /\ o.onFailure = "none"
    /\ honors = TRUE
    /\ directive = Undefined
    /\ Idle
    /\ NoInstances

\* Every call issued before call c has been handed to the transport.
Later(c) == \A d \in CallNames \ {c} : calls[d].state = "issued" => calls[d].sent

\* Instances are created and extended, and calls are issued through them one after
\* the other.
FactoryNext ==
    \/ \E cfg \in ConfigInputs : Create(cfg)
    \/ \E i \in 1..(1 + MaxExtends), cfg \in ConfigInputs : Extend(i, cfg)
    \/ \E c \in CallNames, i \in 1..(1 + MaxExtends), cfg \in CallInputs :
           Later(c) /\ IssueCall(c, i, cfg)
    \/ \E c \in CallNames : HookSetsHeader(c)
    \/ \E c \in CallNames : DecodeSetsAccept(c)
    \/ \E c \in CallNames : SendCall(c)

FactorySpec == FactoryInit /\ [][FactoryNext]_vars

\* The world after `api = create(parent); child = api.extend(extension)`.
Extended(parent, extension) ==
    LET h0 == [by \in Allocators |-> IF by = "module" THEN <<DefaultsObject>> ELSE <<>>]
        a == AllocConfig(h0, "instances", parent)
        b == AllocConfig(a.heap, "instances", extension)
        m == MergeOptions(b.heap, "instances", a.ref, b.ref)
    IN  /\ heap = m.heap
        /\ instances = <<[base |-> a.ref, input |-> a.ref, parent |-> 0, given |-> parent],
                         [base |-> m.ref, input |-> b.ref, parent |-> 1, given |-> extension]>>
        /\ calls = [c \in CallNames |-> [state |-> "none"]]

ConcurrentInit ==
    /\ options = CHOOSE o \in OptionSpace :
                     /\ o.version = 2 /\ o.timeout > 0 /\ o.signal = NoSignal
                     /\ o.target = "absolute"
                     /\ o.onRequest = "async" /\ ~o.retry.custom
                     /\ o.onResponse = "default" /\ o.onSuccess = "none"
                     /\ o.onFailure = "none"
    /\ honors = TRUE
    /\ directive = Undefined
    /\ Idle
    /\ \E parent \in ConfigInputs \ CallInputs, extension \in CallInputs :
           Extended(parent, extension)

\* Calls are issued through the two instances and run concurrently.
ConcurrentNext ==
    \/ \E c \in CallNames, i \in 1..2, cfg \in CallInputs : IssueCall(c, i, cfg)
    \/ \E c \in CallNames : HookSetsHeader(c)
    \/ \E c \in CallNames : DecodeSetsAccept(c)
    \/ \E c \in CallNames : SendCall(c)
    \/ \E c \in CallNames : CallTimerFires(c)
    \/ \E c \in CallNames, status \in Statuses : CallAnswered(c, status)
    \/ \E c \in CallNames : CallRetries(c)

ConcurrentSpec == ConcurrentInit /\ [][ConcurrentNext]_vars

\* The decode methods of the returned promise.
DecodeKinds == DOMAIN ContentTypes

\* One call through either instance, decoded at any moment with any decode method
\* and retried up to MaxRetryLimit times.
DecodeNext ==
    \/ \E i \in 1..2, cfg \in CallInputs : IssueCall("call-1", i, cfg)
    \/ \E key \in DecodeKinds :
           /\ calls["call-1"].state = "issued"
           /\ ~calls["call-1"].decoded
           /\ DecodeCall("call-1", key)
    \/ HookSetsHeader("call-1")
    \/ SendCall("call-1")
    \/ CallTimerFires("call-1")
    \/ \E status \in Statuses : CallAnsweredLimited("call-1", status)
    \/ CallRetries("call-1")

DecodeSpec == ConcurrentInit /\ [][DecodeNext]_vars

\* The transport answers a call that has no retry option: the answer settles it.
CallAnsweredFinal(c, status) == Answered(c, status, FALSE)

\* A classification or failure hook of call c returns request(response.options)
\* for the failed result: request(baseOptions, attempt = 0) merges DEFAULTS with
\* the resolved options attached to the result and runs the executor again; the
\* call settles with the outcome of the new run.
Reissue(c) ==
    /\ calls[c].state = "issued"
    /\ calls[c].outcome = "ResponseError"
    /\ calls[c].reissues < MaxReissues
    /\ LET m == RequestOptions(heap, c, calls[c].options)
       IN  /\ heap' = Materialize(m.heap, m.ref, CallSignal(c, Len(calls[c].resolved)))
           /\ calls' = [calls EXCEPT ![c].options = m.ref,
                                     ![c].resolved = Append(@, m.ref),
                                     ![c].reissues = @ + 1,
                                     ![c].attempt = 0,
                                     ![c].hook = "pending",
                                     ![c].timer = "armed",
                                     ![c].tokenAborted = FALSE,
                                     ![c].outcome = "pending",
                                     ![c].sent = FALSE]
    /\ UNCHANGED instances
    /\ UNCHANGED <<pipelineVars, query>>

\* One call through either instance, decoded with json() at any moment, whose
\* hook re-issues it up to MaxReissues times after a failed result.
ReissueNext ==
    \/ \E i \in 1..2, cfg \in CallInputs : IssueCall("call-1", i, cfg)
    \/ DecodeSetsAccept("call-1")
    \/ HookSetsHeader("call-1")
    \/ SendCall("call-1")
    \/ CallTimerFires("call-1")
    \/ \E status \in Statuses : CallAnsweredFinal("call-1", status)
    \/ Reissue("call-1")

ReissueSpec == ConcurrentInit /\ [][ReissueNext]_vars

\* The decode methods called in ReadSpec: two that read the body, and void.
ReadKinds == {"json", "text", "void"}

\* One call through either instance, with up to MaxDecodes decode methods called
\* on its promise at any moments; the call resolves, is rejected or times out.
ReadNext ==
    \/ \E i \in 1..2, cfg \in CallInputs : IssueCall("call-1", i, cfg)
    \/ \E key \in ReadKinds : DecodeCall("call-1", key)
    \/ HookSetsHeader("call-1")
    \/ SendCall("call-1")
    \/ CallTimerFires("call-1")
    \/ \E status \in Statuses : CallAnswered("call-1", status)
    \/ CallRetries("call-1")
    \/ DecodeSettles("call-1")

ReadSpec == ConcurrentInit /\ [][ReadNext]_vars

\* The configurations with a payload, at resource r: a raw body with its
\* content-type, the same beside a JSON payload, a JSON payload alone, no payload.
PayloadInputs(r) ==
    {[resource |-> r, headers |-> hs, params |-> <<>>, json |-> j, body |-> b] :
        hs \in {<<>>, << <<"content-type", "text/plain">> >>},
        j \in BOOLEAN, b \in {"none", "raw"}}

\* An instance is created and calls with payloads are issued through it, one after
\* the other.
PayloadNext ==
    \/ \E cfg \in PayloadInputs(<<"http://localhost">>) : Create(cfg)
    \/ \E c \in CallNames, cfg \in PayloadInputs(<<"/posts">>) :
           Later(c) /\ IssueCall(c, 1, cfg)
    \/ \E c \in CallNames : HookSetsHeader(c)
    \/ \E c \in CallNames : SendCall(c)

PayloadSpec == FactoryInit /\ [][PayloadNext]_vars

----------------------------------------------------------------------------
(* Query strings: serialize, normalizeParams, mergeOptions' params, url.search *)

\* A text is a sequence of characters; a run of letters or digits without a meaning
\* of its own in a query string stands as one character.

\* JavaScript values of a params object: type, String(value) and, for an array, its
\* items.
Scalar(type, text) == [type |-> type, text |-> text, items |-> <<>>]

Array(items) == [type |-> "array", text |-> <<>>, items |-> items]

JsNull == Scalar("null", <<"null">>)

JsUndefined == Scalar("undefined", <<"undefined">>)

\* The concatenation of the sequences parts[1] .. parts[Len(parts)].
Concat(parts) ==
    LET c[i \in 0..Len(parts)] == IF i = 0 THEN <<>> ELSE c[i - 1] \o parts[i]
    IN  c[Len(parts)]

\* `value` (truthiness) in place of `value != null`.
EmittedIfTruthy(value) ==
    /\ value.type \notin {"null", "undefined"}
    /\ value.text \notin {<<>>, <<"0">>, <<"false">>}

\* value != null
Emitted(value) == value.type \notin {"null", "undefined"}

\* serialize(input): params.append(key, item) for each item of an array value,
\* params.append(key, value) for every other value that is not null or undefined.
Serialize(input) ==
    LET one(i) ==
            LET key == input[i][1]
                value == input[i][2]
            IN  IF value.type = "array"
                THEN [j \in 1..Len(value.items) |-> <<key, value.items[j].text>>]
                ELSE IF Emitted(value) THEN << <<key, value.text>> >> ELSE <<>>
    IN  Concat([i \in 1..Len(input) |-> one(i)])

\* The application/x-www-form-urlencoded byte serializer, per character.
EncodeChar(c) ==
    CASE c = " " -> <<"+">>
      [] c = "&" -> <<"%", "2", "6">>
      [] c = "=" -> <<"%", "3", "D">>
      [] c = "+" -> <<"%", "2", "B">>
      [] c = "%" -> <<"%", "2", "5">>
      [] c = "," -> <<"%", "2", "C">>
      [] c = "[" -> <<"%", "5", "B">>
      [] c = "]" -> <<"%", "5", "D">>
      [] c = "?" -> <<"%", "3", "F">>
      [] OTHER   -> <<c>>

Encode(text) == LET one(i) == EncodeChar(text[i]) IN Concat([i \in 1..Len(text) |-> one(i)])

\* String(params): URLSearchParams' toString(), name=value joined by "&".
ParamsToString(entries) ==
    LET one(i) ==
            (IF i = 1 THEN <<>> ELSE <<"&">>)
                \o Encode(entries[i][1]) \o <<"=">> \o Encode(entries[i][2])
    IN  Concat([i \in 1..Len(entries) |-> one(i)])

\* The character a percent-encoded byte stands for.
PercentBytes ==
    {<<"2", "6", "&">>, <<"3", "D", "=">>, <<"2", "B", "+">>, <<"2", "5", "%">>,
     <<"2", "C", ",">>, <<"5", "B", "[">>, <<"5", "D", "]">>, <<"3", "F", "?">>,
     <<"2", "0", " ">>}

\* Replace "+" by a space and percent-decode.
Decode(text) ==
    LET n == Len(text)
        d[i \in 1..(n + 3)] ==
            IF i > n THEN <<>>
            ELSE IF /\ text[i] = "%"
                    /\ i + 2 <= n
                    /\ \E b \in PercentBytes : b[1] = text[i + 1] /\ b[2] = text[i + 2]
                 THEN LET b == CHOOSE b \in PercentBytes :
                                   b[1] = text[i + 1] /\ b[2] = text[i + 2]
                      IN  <<b[3]>> \o d[i + 3]
                 ELSE <<IF text[i] = "+" THEN " " ELSE text[i]>> \o d[i + 1]
    IN  d[1]

\* text.split(sep)
Split(text, sep) ==
    LET at == SelectSeq([i \in 1..Len(text) |-> i], LAMBDA i : text[i] = sep)
        cuts == <<0>> \o at \o <<Len(text) + 1>>
    IN  [n \in 1..(Len(at) + 1) |-> SubSeq(text, cuts[n] + 1, cuts[n + 1] - 1)]

\* The application/x-www-form-urlencoded parser (new URLSearchParams(text),
\* url.searchParams): a leading "?" is dropped, the text is split at "&", empty
\* pieces are skipped, each piece is split at its first "=" and both sides decoded.
ParseQuery(text) ==
    LET body == IF text # <<>> /\ text[1] = "?" THEN Tail(text) ELSE text
        pieces == SelectSeq(Split(body, "&"), LAMBDA piece : piece # <<>>)
        entry(piece) ==
            LET at == {i \in 1..Len(piece) : piece[i] = "="}
                eq == IF at = {} THEN Len(piece) + 1
                      ELSE CHOOSE i \in at : \A j \in at : i <= j
            IN  <<Decode(SubSeq(piece, 1, eq - 1)), Decode(SubSeq(piece, eq + 1, Len(piece)))>>
    IN  [i \in 1..Len(pieces) |-> entry(pieces[i])]

\* URLSearchParams.getAll(name)
GetAll(entries, name) ==
    LET hit == SelectSeq(entries, LAMBDA e : e[1] = name)
    IN  [i \in 1..Len(hit) |-> hit[i][2]]

\* The params objects given to serialize: up to two properties, in property order.
SerializeKeys == {<<"string">>, <<"a", " ", "b">>, <<"x", "&", "y">>}

SerializeValues ==
    {Scalar("number", <<"0">>), Scalar("string", <<"text">>), Scalar("string", <<>>),
     Scalar("string", <<"a", "+", "b", "=", "c">>), Scalar("boolean", <<"false">>),
     JsNull, JsUndefined,
     Array(<<>>),
     Array(<<Scalar("number", <<"1">>), Scalar("string", <<"t", "&", "o">>),
             Scalar("number", <<"3">>)>>),
     Array(<<JsNull, Scalar("string", <<"1", "%", "2", "6">>)>>)}

SerializeInputs ==
    {<<>>}
        \cup {<< <<k, v>> >> : k \in SerializeKeys, v \in SerializeValues}
        \cup {input \in {<< <<k1, v1>>, <<k2, v2>> >> :
                              k1 \in SerializeKeys, k2 \in SerializeKeys,
                              v1 \in SerializeValues, v2 \in SerializeValues} :
                  input[1][1] # input[2][1]}

\* YF.serialize(input), its toString() and new URLSearchParams(result).
SerializeCall(input) ==
    /\ query = NoQuery
    /\ query' = [op |-> "serialize", input |-> input, params |-> Serialize(input),
                 text |-> ParamsToString(Serialize(input)),
                 parsed |-> ParseQuery(ParamsToString(Serialize(input)))]
    /\ UNCHANGED <<pipelineVars, factoryVars>>

\* The params option: undefined, a plain object (its properties), a
\* URLSearchParams (its entries), a string (its text).
NoParams == [kind |-> "undefined"]

ObjectParams(input) == [kind |-> "object", input |-> input]

ContainerParams(entries) == [kind |-> "URLSearchParams", entries |-> entries]

StringParams(text) == [kind |-> "string", text |-> text]

\* A custom serializer in the way of queryString.stringify(params, { arrayFormat:
\* 'bracket' }): an array's items under key[].
BracketEntries(input) ==
    LET one(i) ==
            LET key == input[i][1]
                value == input[i][2]
            IN  IF value.type = "array"
                THEN [j \in 1..Len(value.items) |-> <<key \o <<"[", "]">>, value.items[j].text>>]
                ELSE IF Emitted(value) THEN << <<key, value.text>> >> ELSE <<>>
    IN  Concat([i \in 1..Len(input) |-> one(i)])

\* A custom serializer in the way of arrayFormat: 'comma': an array's items in one
\* entry, joined by commas.
CommaEntries(input) ==
    LET one(i) ==
            LET key == input[i][1]
                value == input[i][2]
                item(j) == (IF j = 1 THEN <<>> ELSE <<",">>) \o value.items[j].text
            IN  IF value.type = "array"
                THEN IF value.items = <<>> THEN <<>>
                     ELSE << <<key, Concat([j \in 1..Len(value.items) |-> item(j)])>> >>
                ELSE IF Emitted(value) THEN << <<key, value.text>> >> ELSE <<>>
    IN  Concat([i \in 1..Len(input) |-> one(i)])

\* transform(params): the default serializer returns a URLSearchParams, the custom
\* ones a string.
Apply(transform, input) ==
    CASE transform = "bracket" -> StringParams(ParamsToString(BracketEntries(input)))
      [] transform = "comma"   -> StringParams(ParamsToString(CommaEntries(input)))
      [] OTHER                 -> ContainerParams(Serialize(input))

\* normalizeParams(transform = serialize, params = ''): a string or a
\* URLSearchParams is returned as it is, anything else goes through transform.
NormalizeParams(transform, params) ==
    LET t == IF transform = "none" THEN "default" ELSE transform
        p == IF params.kind = "undefined" THEN StringParams(<<>>) ELSE params
    IN  IF p.kind \in {"string", "URLSearchParams"} THEN p ELSE Apply(t, p.input)

\* The entries of new URLSearchParams(init).
NewParams(init) ==
    IF init.kind = "string" THEN ParseQuery(init.text) ELSE init.entries

\* left.serialize || right.serialize
PickParentFirst(left, right) ==
    IF left.serialize # "none" THEN left.serialize ELSE right.serialize

\* serialize = right.serialize || left.serialize
PickSerializer(left, right) ==
    IF right.serialize # "none" THEN right.serialize ELSE left.serialize

\* The params of mergeOptions(left, right): mergeMaps(URLSearchParams,
\* normalizeParams(serialize, left.params), normalizeParams(serialize, right.params))
MergeParams(left, right) ==
    LET serialize == PickSerializer(left, right)
    IN  Appended(NewParams(NormalizeParams(serialize, left.params)),
                 NewParams(NormalizeParams(serialize, right.params)))

\* The params and serialize options given to a merge.
ParamsInputs ==
    {NoParams,
     ObjectParams(<< << <<"users">>, Array(<<Scalar("number", <<"1">>),
                                            Scalar("number", <<"2">>)>>) >> >>),
     ObjectParams(<< << <<"accessToken">>, Scalar("string", <<"1">>) >> >>),
     ContainerParams(<< << <<"users">>, <<"9">> >>, << <<"users">>, <<"8">> >> >>),
     StringParams(<<"a", "=", "1", "&", "b", "=", "x", "+", "y">>)}

Serializers == {"none", "bracket", "comma"}

MergeInputs == {[params |-> ps, serialize |-> f] : ps \in ParamsInputs, f \in Serializers}

\* mergeOptions(left, right), as far as params and serialize go.
MergeCall(left, right) ==
    /\ query = NoQuery
    /\ query' = [op |-> "mergeOptions", left |-> left, right |-> right,
                 params |-> MergeParams(left, right),
                 serialize |-> IF right.serialize # "none" THEN right.serialize
                               ELSE left.serialize]
    /\ UNCHANGED <<pipelineVars, factoryVars>>

\* The URL parser's percent-encoding of a query, per character.
UrlQueryEncode(text) ==
    LET one(i) == IF text[i] = " " THEN <<"%", "2", "0">> ELSE <<text[i]>>
    IN  Concat([i \in 1..Len(text) |-> one(i)])

\* The search getter: "?" and the query, or the empty string for an empty query.
SearchGet(urlQuery) == IF urlQuery = <<>> THEN <<>> ELSE <<"?">> \o urlQuery

\* The search setter: the query of the value without its leading "?".
SearchSet(value) ==
    UrlQueryEncode(IF value # <<>> /\ value[1] = "?" THEN Tail(value) ELSE value)

\* The query embedded in options.resource.
EmbeddedInputs ==
    {<<>>, <<"a", "=", "1">>, <<"a", "=", "1", "&">>,
     <<"a", "=", "1", "&", "c", "=", "3">>, <<"q", "=", "x", " ", "y">>}

\* The entries of options.params.
EntryInputs ==
    LET entries == {<< <<"b">>, <<"2">> >>, << <<"a">>, <<"9">> >>,
                    << <<"k">>, <<"x", "&", "y">> >>}
    IN  {<<>>} \cup {<<e>> : e \in entries} \cup {<<e, f>> : e \in entries, f \in entries}

\* const url = new URL(options.resource, options.base); url.search += options.params
AppendSearch(embedded, entries) ==
    /\ query = NoQuery
    /\ query' = [op |-> "search", embedded |-> embedded, params |-> entries,
                 search |-> SearchSet(SearchGet(UrlQueryEncode(embedded))
                                          \o ParamsToString(entries))]
    /\ UNCHANGED <<pipelineVars, factoryVars>>

\* No call goes through the pipeline or the instances: query computations only.
QueryInit == FactoryInit

QueryNext ==
    \/ \E input \in SerializeInputs : SerializeCall(input)
    \/ \E left \in MergeInputs, right \in MergeInputs : MergeCall(left, right)
    \/ \E embedded \in EmbeddedInputs, entries \in EntryInputs :
           AppendSearch(embedded, entries)

QuerySpec == QueryInit /\ [][QueryNext]_vars

----------------------------------------------------------------------------
(* Properties *)

\* The failure hook, if any, hands on the error it receives.
FailureTransparent == options.onFailure \in {"none", "rethrow"}

\* The number of transport invocations of the call.
Invocations == Cardinality({k \in Attempts : dispatched[k].sent})

\* C1: with timeout > 0, once the timer of an attempt has fired before that attempt
\* settled, the attempt is rejected with TimeoutError, the call rejects with
\* TimeoutError (a failure hook that hands errors on, or none), and the internal token
\* handed to the transport is triggered, in that state and in every later one.
C1_TimerRejectsAndTriggersToken ==
    \A k \in Attempts :
        timer[k] = "fired" =>
            /\ options.timeout > 0
            /\ signal[k] = CtrlSignal(k)
            /\ IsAborted(signal[k])
            /\ hook[k] # "threw" =>
                   /\ p0[k] = Rejected(TimeoutError)
                   /\ FailureTransparent => p3[0] = Rejected(TimeoutError)

\* C1 witness: the timer fired while the transport invocation, entered with an
\* untriggered token, had not answered; the call is rejected with TimeoutError.
C1_Witness ==
    \E k \in Attempts :
        /\ timer[k] = "fired"
        /\ dispatched[k].sent /\ ~dispatched[k].aborted
        /\ transport[k] \in {"inflight", "aborting", "aborted"}
        /\ aborted[k]
        /\ p3[0] = Rejected(TimeoutError)

\* C2 (step): when the caller triggers its token while an attempt is in flight with
\* its timer armed, that step clears the timer and triggers the internal token, and a
\* transport that honours the token raises its cancellation error.
C2_CancelStep ==
    (~userAborted /\ userAborted') =>
        \A k \in Attempts :
            (transport[k] = "inflight" /\ timer[k] = "armed") =>
                /\ timer'[k] = "cleared"
                /\ aborted'[k]
                /\ honors => transport'[k] = "aborting"

\* C2 (outcome): an attempt whose transport raised the cancellation error with the
\* timer cleared is rejected with AbortError, and so is the call; an attempt whose
\* timer was cleared is never rejected with TimeoutError.
C2_CancelOutcome ==
    \A k \in Attempts :
        /\ (userAborted /\ transport[k] = "aborted" /\ timer[k] = "cleared") =>
               /\ p0[k] = Rejected(AbortError)
               /\ FailureTransparent => p3[0] = Rejected(AbortError)
        /\ timer[k] = "cleared" => p0[k] # Rejected(TimeoutError)

\* C2: with timeout > 0 and a caller-supplied token, the caller triggering its token
\* while the attempt is in flight and before the timer fires clears the timer,
\* triggers the internal token, and the call rejects with the transport's AbortError,
\* never with TimeoutError.
C2_ExternalCancelBeatsTimer == [][C2_CancelStep /\ C2_CancelOutcome']_vars

\* C2 witness: the caller cancelled an attempt in flight; timer cleared, AbortError.
C2_Witness ==
    \E k \in Attempts :
        /\ options.timeout > 0
        /\ userAborted
        /\ dispatched[k].sent /\ ~dispatched[k].aborted
        /\ transport[k] = "aborted"
        /\ timer[k] = "cleared"
        /\ aborted[k]
        /\ p3[0] = Rejected(AbortError)

\* C3 (step): a settled attempt and a settled call keep their outcome whatever
\* happens later; the first of the racing events fixes it: the timer firing on a
\* pending attempt rejects it with TimeoutError, an answer on a pending attempt
\* resolves it.  After a timeout the retry step, the classification hook and the
\* success hook have not run for the attempt and no retry follows it.
C3_Step ==
    \A k \in Attempts :
        /\ p0[k].st # "pending" => p0'[k] = p0[k]
        /\ p2[k].st # "pending" => p2'[k] = p2[k]
        /\ p3[k].st # "pending" => p3'[k] = p3[k]
        /\ (p0[k].st = "pending" /\ timer[k] = "armed" /\ timer'[k] = "fired") =>
               p0'[k] = Rejected(TimeoutError)
        /\ (p0[k].st = "pending" /\ transport[k] = "inflight" /\ transport'[k] = "responded") =>
               p0'[k].st = "fulfilled"
        /\ p0'[k] = Rejected(TimeoutError) =>
               /\ p1'[k] = p0'[k]
               /\ p2'[k] = p0'[k]
               /\ retryTimer'[k] = "none"
               /\ started' <= k + 1
               /\ FailureTransparent => p3'[0] = Rejected(TimeoutError)

\* C3: the outcome of an attempt is fixed by whichever of transport settlement, timer
\* and external cancel comes first; a response arriving after the timer fired never
\* resolves the call, runs no hook and starts no retry, and an external cancel after
\* the timer fired leaves the outcome TimeoutError.
C3_FirstEventWins == [][C3_Step]_vars

\* C3 witness: the transport answered after the timer had fired; still TimeoutError.
C3_Witness ==
    \E k \in Attempts :
        /\ timer[k] = "fired"
        /\ transport[k] = "responded"
        /\ p0[k] = Rejected(TimeoutError)
        /\ p3[0] = Rejected(TimeoutError)

\* C4: with a retry predicate that holds of the results of attempts 0..N-1, every
\* such result starts the retry delay and then the next attempt; when attempt N
\* answers with a success the predicate rejects, the call resolves with that result
\* and the transport has been invoked exactly N+1 times.
C4_RetryUntilSuccess ==
    \A k \in Attempts :
        /\ (options.version = 2 /\ p0[k].st = "fulfilled" /\ ApplyRetry(p0[k].val)) =>
               /\ retryTimer[k] \in {"pending", "fired"}
               /\ retryTimer[k] = "pending" => (started = k + 1 /\ p3[0].st = "pending")
               /\ retryTimer[k] = "fired" => started >= k + 2
        /\ (/\ options.version = 2
            /\ options.onResponse = "default" /\ options.onSuccess = "none"
            /\ p0[k].st = "fulfilled" /\ Ok(p0[k].val) /\ ~ApplyRetry(p0[k].val)) =>
               /\ p3[0] = Fulfilled(p0[k].val)
               /\ p3[0].val.attempt = k
               /\ Invocations = k + 1

\* C4 witness: MaxRetryLimit transient failures, then a success: resolved, N+1 invocations.
C4_Witness ==
    /\ options.retry.custom /\ options.retry.limit = MaxRetryLimit
    /\ \A j \in 0..(MaxRetryLimit - 1) : p0[j].st = "fulfilled" /\ p0[j].val.status = 500
    /\ p3[0].st = "fulfilled"
    /\ p3[0].val.status = 200
    /\ p3[0].val.attempt = MaxRetryLimit
    /\ Invocations = MaxRetryLimit + 1

\* C5: under the default retry predicate only results of attempts below 2 with a
\* status in 408, 413, 429, 500, 502, 503, 504 are retried, so a call invokes the
\* transport at most 3 times; a first result with status 400 is not retried: one
\* invocation, and the call rejects with ResponseError.
C5_DefaultRetryBound ==
    (options.version = 2 /\ ~options.retry.custom) =>
        /\ Invocations <= 3
        /\ started <= 3
        /\ \A k \in Attempts :
               retryTimer[k] # "none" =>
                   /\ k < 2
                   /\ p0[k].val.status \in {408, 413, 429, 500, 502, 503, 504}
        /\ (/\ p0[0].st = "fulfilled" /\ p0[0].val.status = 400
            /\ options.onResponse = "default" /\ FailureTransparent) =>
               /\ Invocations = 1
               /\ started = 1
               /\ p3[0].st = "rejected"
               /\ p3[0].val.kind = "ResponseError"
               /\ p3[0].val.response = p0[0].val

\* C5 witness: three transient failures in a row under the default predicate: the
\* third is not retried and the call rejects with ResponseError.
C5_Witness ==
    /\ options.version = 2 /\ ~options.retry.custom
    /\ Invocations = 3
    /\ p0[2].st = "fulfilled" /\ p0[2].val.status = 500
    /\ retryTimer[2] = "none"
    /\ p3[0].st = "rejected" /\ p3[0].val.kind = "ResponseError"

\* C6: attempts of a call never overlap: at most one transport invocation is in
\* flight, and when attempt k+1 has started the transport invocation of attempt k
\* has answered, the timer of attempt k is cleared and the retry delay has elapsed.
C6_AttemptsSequential ==
    /\ Cardinality({k \in Attempts : transport[k] \in {"inflight", "aborting"}}) <= 1
    /\ \A k \in Attempts :
           (k >= 1 /\ (k < started \/ hook[k] # "none" \/ dispatched[k].sent)) =>
               /\ transport[k - 1] = "responded"
               /\ p0[k - 1].st = "fulfilled"
               /\ timer[k - 1] \in {"none", "cleared"}
               /\ retryTimer[k - 1] = "fired"

\* C6 witness: with a timeout configured, the second attempt is in flight.
C6_Witness ==
    /\ options.timeout > 0
    /\ started = 2
    /\ transport[1] = "inflight"
    /\ timer[0] = "cleared"
    /\ timer[1] = "armed"

\* C7: with the default classification hook a result with a success status is
\* passed on as it is and resolves the call (no success hook); a result with another
\* status is turned into a ResponseError whose response is that result, with that
\* result's status (and, where the class has the field, as its own status), and
\* the call rejects with it (a failure hook that hands errors on, or none).
C7_DefaultClassification ==
    options.onResponse = "default" =>
        \A k \in Attempts :
            p1[k].st = "fulfilled" =>
                IF p1[k].val.status \in 200..299
                THEN /\ p2[k] = Fulfilled(p1[k].val)
                     /\ options.onSuccess = "none" => p3[k] = Fulfilled(p1[k].val)
                ELSE /\ p2[k].st = "rejected"
                     /\ p2[k].val.kind = "ResponseError"
                     /\ p2[k].val.response = p1[k].val
                     /\ p2[k].val.response.status = p1[k].val.status
                     /\ options.version = 1 => p2[k].val.status = p1[k].val.status
                     /\ FailureTransparent => p3[k] = p2[k]

\* C7 witness: a 400 answer; the call is rejected with the ResponseError carrying it.
C7_Witness ==
    /\ options.version = 1
    /\ p0[0].st = "fulfilled" /\ p0[0].val.status = 400
    /\ p3[0].st = "rejected"
    /\ p3[0].val.kind = "ResponseError"
    /\ p3[0].val.status = 400
    /\ p3[0].val.response = p0[0].val

\* C8: on the error path the failure hook decides the outcome of the call: rethrowing
\* hands the same error to the caller, throwing another error hands that one,
\* returning a Result (or a promise of one) resolves the call with it; without a
\* failure hook the error propagates unchanged.
C8_FailureHookDecides ==
    \A k \in Attempts :
        p2[k].st = "rejected" =>
            CASE options.onFailure \in {"none", "rethrow"} -> p3[k] = p2[k]
              [] options.onFailure = "throwOther" ->
                     p3[k] = Rejected([kind |-> "CustomError", cause |-> p2[k].val])
              [] OTHER -> p3[k] = Fulfilled(Substitute)

\* C8 witness: the failure hook returned a promise of a Result for a ResponseError.
C8_Witness ==
    /\ options.onFailure = "returnPromise"
    /\ p2[0].st = "rejected" /\ p2[0].val.kind = "ResponseError"
    /\ p3[0].st = "fulfilled"
    /\ p3[0].val.from = "onFailure"

\* C9: when the request hook throws synchronously or returns a rejected promise, the
\* transport is never invoked for that attempt and the call takes the error path with
\* the hook's error: no retry step, no classification, and the call rejects with it
\* (a failure hook that hands errors on, or none).  No rejection of the hook, late
\* or not, is followed by a transport invocation.
C9_HookErrorAbortsDispatch ==
    \A k \in Attempts :
        /\ hook[k] \in {"threw", "rejecting", "rejected"} =>
               (transport[k] = "idle" /\ ~dispatched[k].sent)
        /\ (options.onRequest \in {"throws", "rejected"} /\ hook[k] \in {"threw", "rejected"}) =>
               /\ p0[k] = Rejected(HookError)
               /\ p1[k] = p0[k]
               /\ p2[k] = p0[k]
               /\ FailureTransparent => p3[0] = Rejected(HookError)

\* C9 witness: the hook returned a rejected promise while the timer was armed; the
\* timer is cleared, the transport was not invoked, the call rejects with the error.
C9_Witness ==
    /\ options.onRequest = "rejected"
    /\ options.timeout > 0
    /\ hook[0] = "rejected"
    /\ timer[0] = "cleared"
    /\ transport[0] = "idle"
    /\ p3[0] = Rejected(HookError)

\* C10: the transport is invoked only after the request hook's promise has resolved,
\* and with the resolved request as the hook left it: the Authorization header an
\* asynchronous hook set is on the dispatched request with the value the hook wrote.
C10_DispatchAfterHook ==
    \A k \in Attempts :
        dispatched[k].sent =>
            /\ hook[k] = "resolved"
            /\ dispatched[k].headers.authorization = headers[k].authorization
            /\ options.onRequest = "async" => dispatched[k].headers.authorization \in Tokens

\* C10 witness: asynchronous hooks of two attempts wrote different values; each
\* attempt was dispatched with its own.
C10_Witness ==
    /\ options.onRequest = "async"
    /\ dispatched[0].sent /\ dispatched[0].headers.authorization = "token-1"
    /\ dispatched[1].sent /\ dispatched[1].headers.authorization = "token-2"

\* C11: once the token handed to the transport of an attempt in flight is triggered,
\* by the timer or by the caller, the attempt is eventually rejected by the call
\* itself even if the transport never settles (or else the transport has settled on
\* its own after all).
C11_SettlesDespiteTransport ==
    \A k \in Attempts :
        (transport[k] = "inflight" /\ IsAborted(signal[k]))
            ~> (p0[k].st = "rejected" \/ transport[k] # "inflight")

\* C12: a settled attempt has no armed timer, whatever settled it.
C12_NoTimerAfterSettle ==
    \A k \in Attempts : p0[k].st # "pending" => timer[k] # "armed"

\* C13: when a retried result carries a Retry-After directive of D seconds, the retry
\* timer is set with the directive's delay (1000 * D ms, floored at zero) in place of
\* the computed backoff, the next attempt starts no earlier than D seconds after the
\* result was received, and the call resolves no earlier than that.
C13_RetryAfterDelay ==
    \A k \in Attempts :
        (retryTimer[k] # "none" /\ p0[k].val.retryAfter # Undefined) =>
            LET d == IF p0[k].val.retryAfter < 0 THEN 0 ELSE 1000 * p0[k].val.retryAfter
            IN  /\ retryDelay[k] = d
                /\ retryTimer[k] = "fired" => startedAt[k + 1] >= receivedAt[k] + d
                /\ p3[0].st = "fulfilled" => clock >= receivedAt[k] + d

\* C14: with the default delay function the retry timer after the result of attempt
\* n is set with 300 * 2^n ms; attempt n+1 has not started while that timer is
\* pending and starts no earlier than 300 * 2^n ms after the result was received; so
\* attempt n starts no earlier than 300 * (2^n - 1) ms after the call was issued, and
\* the attempt that follows three retries starts, and the call settles, later than
\* 2000 ms after it.
C14_DefaultBackoff ==
    \A k \in Attempts :
        /\ retryTimer[k] # "none" =>
               /\ retryDelay[k] = 300 * 2 ^ k
               /\ receivedAt[k] >= startedAt[k]
        /\ retryTimer[k] = "pending" => (started = k + 1 /\ startedAt[k + 1] = Undefined)
        /\ retryTimer[k] = "fired" => startedAt[k + 1] >= receivedAt[k] + 300 * 2 ^ k
        /\ k < started => startedAt[k] >= 300 * (2 ^ k - 1)
        /\ (k = 3 /\ k < started) =>
               /\ startedAt[k] > 2000
               /\ p3[0].st # "pending" => clock > 2000

\* C14 witness: three retries, 300 + 600 + 1200 ms after the call was issued; the
\* fourth attempt's success resolves the call.
C14_Witness ==
    /\ started = 4
    /\ retryDelay[0] = 300 /\ retryDelay[1] = 600 /\ retryDelay[2] = 1200
    /\ startedAt[3] = 2100
    /\ p3[0].st = "fulfilled" /\ p3[0].val.attempt = 3

\* The configurations given to instance i and its ancestors, merged from the root
\* down by concatenation.
Chain(i) ==
    LET ch[j \in 1..Len(instances)] ==
            LET g == instances[j].given
            IN  IF instances[j].parent = 0
                THEN [resource |-> g.resource, headers |-> g.headers, params |-> g.params]
                ELSE [resource |-> ch[instances[j].parent].resource \o g.resource,
                      headers |-> ch[instances[j].parent].headers \o g.headers,
                      params |-> ch[instances[j].parent].params \o g.params]
    IN  ch[i]

\* The calls handed to the transport.
Sent == {c \in CallNames : calls[c].state = "issued" /\ calls[c].sent}

\* The instances made by extend().
Children == {i \in 1..Len(instances) : instances[i].parent # 0}

C16_ChildHeaderWins ==
    \A i \in Children :
        LET A == Entries(heap, Deref(heap, instances[instances[i].parent].base).headers)
            B == instances[i].given.headers
            M == Entries(heap, Deref(heap, instances[i].base).headers)
        IN  \A k \in Names(A) \cup Names(B) :
                HeaderGet(M, k) = IF k \in Names(B) THEN HeaderGet(B, k) ELSE HeaderGet(A, k)

\* C17: the merged query container has the names of the parent's and of the child's
\* container, and the value read for a name is the child's where the child has the
\* name, the parent's otherwise.
C17_QueryUnionChildWins ==
    \A i \in Children :
        LET A == Entries(heap, Deref(heap, instances[instances[i].parent].base).params)
            B == instances[i].given.params
            M == Entries(heap, Deref(heap, instances[i].base).params)
        IN  /\ Names(M) = Names(A) \cup Names(B)
            /\ \A k \in Names(A) \cup Names(B) :
                   ParamGet(M, k) = IF k \in Names(B) THEN ParamGet(B, k) ELSE ParamGet(A, k)

\* The references of heap h.
Refs(h) == UNION {{<<a, n>> : n \in 1..Len(h[a])} : a \in Allocators}

\* The option objects of heap h.
OptionRefs(h) == {r \in Refs(h) : Deref(h, r).kind = "options"}

\* No two option objects of heap h have the same header container or the same query
\* container.
NoSharedContainer(h) ==
    \A r1, r2 \in OptionRefs(h) :
        r1 # r2 =>
            /\ Deref(h, r1).headers # Null => Deref(h, r1).headers # Deref(h, r2).headers
            /\ Deref(h, r1).params # Null => Deref(h, r1).params # Deref(h, r2).params

\* The base configuration of instance i reads as the configurations given to create
\* and to each extend.
BaseAsGiven(i) ==
    LET base == Deref(heap, instances[i].base)
    IN  /\ base.resource = Chain(i).resource
        /\ Entries(heap, base.headers) = Chain(i).headers
        /\ Entries(heap, base.params) = Chain(i).params
        /\ base.body = "none"
        /\ base.signal = NoSignal

\* C18: no step changes an object that was an input of a merge (the defaults, the
\* objects given to create, extend and the verb methods, the base of an instance),
\* no two configurations share a header or a query container, and so what a call
\* writes (accept, the hook's header, content-type and body, the internal token)
\* leaves every instance's base reading as it was given: a later call on the
\* instance starts from it.
C18_MergeLeavesInputs ==
    [][/\ heap'["module"] = heap["module"]
       /\ SubSeq(heap'["instances"], 1, Len(heap["instances"])) = heap["instances"]
       /\ calls' # calls => heap'["instances"] = heap["instances"]
       /\ \A c \in CallNames :
              calls[c].state = "issued" =>
                  SubSeq(heap'[c], 1, calls[c].input[2]) = SubSeq(heap[c], 1, calls[c].input[2])
       /\ NoSharedContainer(heap')
       /\ \A i \in 1..Len(instances') : BaseAsGiven(i)']_vars

\* C18 witness: a call with a JSON payload was dispatched with the accept header of
\* its decode operation, the header of its request hook, the serialized body and
\* its token, and a later call on the same instance has been issued and starts
\* without any of them.
C18_Witness ==
    \E c \in Sent, d \in CallNames \ Sent :
        /\ calls[d].state = "issued"
        /\ calls[d].inst = calls[c].inst
        /\ calls[c].dispatched.body = "json-text"
        /\ calls[c].dispatched.signal = CallSignal(c, 0)
        /\ HeaderGet(calls[c].dispatched.headers, "accept") = <<"application/json">>
        /\ HeaderGet(calls[c].dispatched.headers, "authorization") = <<Credential(c)>>
        /\ HeaderGet(calls[c].dispatched.headers, "content-type") = <<"application/json">>
        /\ ~Deref(heap, instances[calls[d].inst].base).json
        /\ ~calls[d].given.json
        /\ Names(Resolved(heap, calls[d].options).headers) \cap
               {"accept", "authorization", "content-type"} = {}
        /\ Resolved(heap, calls[d].options).body = "none"

\* The entries of a header list under the names no step of a call writes.
Unwritten(list) ==
    SelectSeq(list, LAMBDA e : e[1] \notin {"accept", "authorization", "content-type"})

\* The resolved options o of call c read as the configurations given to create and
\* to each extend on the way to the call's instance, followed by the call's own.
AsGiven(c, o) ==
    LET along == Chain(calls[c].inst)
    IN  /\ o.path = along.resource \o calls[c].given.resource
        /\ o.query = along.params \o calls[c].given.params
        /\ Unwritten(o.headers) = Unwritten(along.headers \o calls[c].given.headers)

\* C19: extend makes a new instance whose base is the merge of the parent's base
\* and the options given, and the parent is as before: a call through an instance,
\* issued before or after any extend, is resolved and dispatched with the path
\* fragments, query entries and headers given to that instance and its ancestors
\* (and to the call), none of a child's; a call through the child has the parent's
\* followed by the child's.
C19_ExtendLeavesParent ==
    /\ \A i \in Children :
           LET parent == Deref(heap, instances[instances[i].parent].base)
               given == Deref(heap, instances[i].input)
               base == Deref(heap, instances[i].base)
           IN  /\ instances[i].base # instances[instances[i].parent].base
               /\ base.resource = parent.resource \o given.resource
               /\ Entries(heap, base.headers) =
                      Entries(heap, parent.headers) \o Entries(heap, given.headers)
               /\ Entries(heap, base.params) =
                      Entries(heap, parent.params) \o Entries(heap, given.params)
    /\ \A c \in CallNames :
           calls[c].state = "issued" =>
               /\ AsGiven(c, Resolved(heap, calls[c].first))
               /\ calls[c].sent => AsGiven(c, calls[c].dispatched)

\* C19 witness: a call through the child was dispatched with the parent's and the
\* child's header, query entries and path fragments; a call through the parent,
\* issued after that, is about to be dispatched with the parent's only.
C19_Witness ==
    \E c \in CallNames \ Sent, d \in Sent :
        /\ calls[c].state = "issued"
        /\ calls[c].hook = "resolved"
        /\ instances[calls[d].inst].parent = calls[c].inst
        /\ calls[d].dispatched.path = <<"http://localhost", "/posts">>
        /\ HeaderGet(calls[d].dispatched.headers, "x-from") = <<"website", "app">>
        /\ Names(calls[d].dispatched.query) = {"accessToken", "userId"}
        /\ Resolved(heap, calls[c].options).path = <<"http://localhost">>
        /\ HeaderGet(Resolved(heap, calls[c].options).headers, "x-from") = <<"website">>
        /\ Resolved(heap, calls[c].options).query = <<<<"accessToken", "1">>>>

\* What call c is given to work with: the resolved options of its first and of its
\* current attempt.
Own(h, c) ==
    IF calls[c].state = "issued"
    THEN <<Resolved(h, calls[c].first), Resolved(h, calls[c].options)>>
    ELSE <<>>

\* C20: every step (a call issued, a header set by a request hook, a decode
\* operation, a dispatch, a timer firing, an answer, a retry) is a step of one
\* call: the outcome, timer, token, dispatched request and resolved options of
\* every other call stay as they are, and so do the instances; and the tokens of
\* two calls are never the same.
C20_CallsShareNothing ==
    [][/\ \E c \in CallNames :
              \A d \in CallNames \ {c} :
                  /\ calls'[d] = calls[d]
                  /\ Own(heap', d) = Own(heap, d)
       /\ instances' = instances
       /\ \A i \in 1..Len(instances) :
              Resolved(heap', instances[i].base) = Resolved(heap, instances[i].base)
       /\ \A c, d \in CallNames :
              c # d /\ calls'[c].state = "issued" /\ calls'[d].state = "issued" =>
                  Resolved(heap', calls'[c].options).signal #
                      Resolved(heap', calls'[d].options).signal]_vars

\* C20 witness: two calls on the same instance are in flight; one was decoded, has
\* retried and had its header set again by the request hook, the other was
\* dispatched with its own header and token and without the accept header, its
\* timer set and its token not triggered.
C20_Witness ==
    \E c, d \in CallNames :
        /\ c # d
        /\ calls[c].state = "issued" /\ calls[d].state = "issued"
        /\ calls[c].inst = calls[d].inst
        /\ calls[c].attempt = 1 /\ calls[c].decoded /\ calls[c].hook = "resolved"
        /\ calls[c].timer = "armed"
        /\ calls[d].attempt = 0 /\ calls[d].sent /\ calls[d].outcome = "pending"
        /\ calls[d].timer = "armed" /\ ~calls[d].tokenAborted
        /\ calls[d].dispatched.signal = CallSignal(d, 0)
        /\ HeaderGet(calls[d].dispatched.headers, "authorization") = <<Credential(d)>>
        /\ "accept" \notin Names(calls[d].dispatched.headers)
        /\ ~calls[d].decoded

\* C21: a call whose target cannot be resolved (a relative resource, no base) is
\* rejected with the TypeError of the URL constructor: request() returns a promise
\* that is rejected, and with a failure hook that hands errors on the returned
\* promise is rejected with that error; no timer is set, the request hook is not
\* called, the transport is never invoked and no attempt follows.
C21_InvalidTargetRejects ==
    ~ValidTarget /\ started > 0 =>
        /\ started = 1
        /\ p0[0] = Rejected(InvalidURL)
        /\ p3[0].st # "pending"
        /\ FailureTransparent => p3[0] = Rejected(InvalidURL)
        /\ \A k \in Attempts :
               /\ timer[k] = "none"
               /\ hook[k] = "none"
               /\ transport[k] = "idle"
               /\ ~dispatched[k].sent
               /\ retryTimer[k] = "none"

\* C21 witness: request() has returned to its caller with a timeout configured, a
\* request hook given and no resolvable target; the returned promise is rejected.
C21_Witness ==
    /\ ~ValidTarget
    /\ callerSync
    /\ options.timeout > 0
    /\ options.onRequest = "async"
    /\ p3[0] = Rejected(InvalidURL)

\* C22: a call with a JSON payload (its own or its instance's) is dispatched with
\* the JSON text as body and application/json as its only content-type, whatever
\* raw body and content-type were configured; a call without one is dispatched with
\* the body and the content-type that were configured.
C22_JsonPayload ==
    \A c \in Sent :
        LET inst == instances[calls[c].inst].given
            cfg == calls[c].given
            sent == calls[c].dispatched
        IN  IF inst.json \/ cfg.json
            THEN /\ sent.body = "json-text"
                 /\ HeaderGet(sent.headers, "content-type") = <<"application/json">>
            ELSE /\ sent.body = IF cfg.body # "none" THEN cfg.body ELSE inst.body
                 /\ HeaderGet(sent.headers, "content-type") =
                        HeaderGet(inst.headers \o cfg.headers, "content-type")

\* C22 witness: a call given a JSON payload beside a raw body and a text/plain
\* content-type was dispatched with the JSON text and application/json.
C22_Witness ==
    \E c \in Sent :
        /\ calls[c].given.json
        /\ calls[c].given.body = "raw"
        /\ HeaderGet(calls[c].given.headers, "content-type") = <<"text/plain">>
        /\ calls[c].dispatched.body = "json-text"
        /\ HeaderGet(calls[c].dispatched.headers, "content-type") = <<"application/json">>

\* The value list a params object gives its i-th key: the items of an array, the
\* value itself, nothing for null and undefined; each as String(value).
ValueList(input, i) ==
    LET value == input[i][2]
    IN  IF value.type = "array" THEN [j \in 1..Len(value.items) |-> value.items[j].text]
        ELSE IF value.type \in {"null", "undefined"} THEN <<>>
        ELSE <<value.text>>

\* The names of a container's entries, in order, a name's repetitions left out.
NamesInOrder(entries) ==
    LET first == {i \in 1..Len(entries) : \A j \in 1..(i - 1) : entries[j][1] # entries[i][1]}
        pick[i \in 0..Len(entries)] ==
            IF i = 0 THEN <<>>
            ELSE IF i \in first THEN Append(pick[i - 1], entries[i][1]) ELSE pick[i - 1]
    IN  pick[Len(entries)]

\* C29: the default serializer's container has, for every key of the input, the
\* key's value list (one entry per scalar, one per array element, none for null and
\* undefined, falsy values kept), the keys in input order, an array's entries
\* together; the container parsed from its text has the same value list for every
\* key and the same key order.
C29_DefaultSerialize ==
    query.op = "serialize" =>
        LET input == query.input
            present == SelectSeq([i \in 1..Len(input) |-> i],
                                 LAMBDA i : ValueList(input, i) # <<>>)
        IN  /\ \A i \in 1..Len(input) :
                   /\ GetAll(query.params, input[i][1]) = ValueList(input, i)
                   /\ GetAll(query.parsed, input[i][1]) = ValueList(input, i)
            /\ NamesInOrder(query.params) = [n \in 1..Len(present) |-> input[present[n]][1]]
            /\ NamesInOrder(query.parsed) = NamesInOrder(query.params)
            /\ Len(query.parsed) = Len(query.params)
            /\ \A n \in 1..(Len(query.params) - 1) :
                   query.params[n][1] # query.params[n + 1][1] =>
                       \A m \in (n + 1)..Len(query.params) :
                           query.params[m][1] # query.params[n][1]

\* C29 witness: { 'x&y': 0, string: [1, 't&o', 3] } was serialized to four entries
\* whose text is x%26y=0&string=1&string=t%26o&string=3.
C29_Witness ==
    /\ query.op = "serialize"
    /\ Len(query.input) = 2
    /\ query.input[1] = << <<"x", "&", "y">>, Scalar("number", <<"0">>) >>
    /\ query.input[2][2].type = "array"
    /\ Len(query.params) = 4
    /\ query.text = <<"x", "%", "2", "6", "y", "=", "0", "&", "string", "=", "1", "&",
                      "string", "=", "t", "%", "2", "6", "o", "&", "string", "=", "3">>

\* C23: the query of the dispatched target has every component of the query
\* embedded in the resource, key and value as they were, followed by one component
\* for every entry of the params.
C23_SearchAppended ==
    query.op = "search" =>
        ParseQuery(query.search) = ParseQuery(query.embedded) \o query.params

\* The serializer the claim names for a merge: the child's, else the parent's, else
\* the default one.
Chosen(left, right) ==
    IF right.serialize # "none" THEN right.serialize
    ELSE IF left.serialize # "none" THEN left.serialize
    ELSE "default"

\* What a params value brings to a merge under serializer f.
Brought(f, params) ==
    CASE params.kind = "object"          -> NewParams(Apply(f, params.input))
      [] params.kind = "URLSearchParams" -> params.entries
      [] params.kind = "string"          -> ParseQuery(params.text)
      [] OTHER                           -> <<>>

\* C24: the merged params are the parent's followed by the child's, where a plain
\* object is serialized with the child's serializer if there is one, else with the
\* parent's, else with the default one, and a URLSearchParams or a string brings
\* its own entries, whatever the serializers are.
C24_SerializerChoice ==
    query.op = "mergeOptions" =>
        query.params =
            Brought(Chosen(query.left, query.right), query.left.params)
                \o Brought(Chosen(query.left, query.right), query.right.params)

\* C24 witness: the parent has one custom serializer and a plain object with an
\* array, the child another serializer and a URLSearchParams: the object went
\* through the child's serializer, the container through none.
C24_Witness ==
    /\ query.op = "mergeOptions"
    /\ query.left.serialize = "bracket"
    /\ query.right.serialize = "comma"
    /\ query.left.params.kind = "object"
    /\ query.right.params.kind = "URLSearchParams"
    /\ query.params = << << <<"users">>, <<"1", ",", "2">> >>,
                         << <<"users">>, <<"9">> >>, << <<"users">>, <<"8">> >> >>

\* C25: a call on whose promise a decode method was called before anything of the
\* call ran after the verb method returned is handed to the transport, at its first
\* attempt and at every retry, with the accept header of that method as its only
\* accept header.
C25_AcceptOnEveryAttempt ==
    \A c \in Sent :
        calls[c].early =>
            HeaderGet(calls[c].dispatched.headers, "accept") = <<ContentTypes[calls[c].accept]>>

\* C25 witness: the last retry the predicate allows was dispatched with the accept
\* header of .text(), called right after the call was issued.
C25_Witness ==
    \E c \in Sent :
        /\ calls[c].early
        /\ calls[c].accept = "text"
        /\ calls[c].attempt = MaxRetryLimit
        /\ HeaderGet(calls[c].dispatched.headers, "accept") = <<"text/*">>

\* The decode promises of call c that have settled.
Decoded(c) == {n \in 1..Len(calls[c].decodes) : calls[c].decodes[n].value # "pending"}

\* C26: of the decode methods called on the promise of a resolved call, none fails
\* with the TypeError of a used body, two of the same kind settle with equal
\* values, each with what its kind reads from the body, and the result's own body
\* is unused after any of them.
C26_DecodeRepeatable ==
    \A c \in CallNames :
        calls[c].state = "issued" /\ calls[c].outcome = "resolved" =>
            /\ ~calls[c].bodyUsed
            /\ \A n \in Decoded(c) :
                   /\ calls[c].decodes[n].value # "TypeError"
                   /\ calls[c].decodes[n].key # "void" =>
                          calls[c].decodes[n].value = calls[c].decodes[n].key
                   /\ \A m \in Decoded(c) :
                          calls[c].decodes[m].key = calls[c].decodes[n].key =>
                              calls[c].decodes[m].value = calls[c].decodes[n].value

\* C26 witness: .json() was called twice on the promise of a call that has
\* resolved, and both have settled with the parsed body.
C26_Witness ==
    \E c \in CallNames :
        /\ calls[c].state = "issued"
        /\ calls[c].outcome = "resolved"
        /\ Len(calls[c].decodes) >= 2
        /\ calls[c].decodes[1] = [key |-> "json", value |-> "json"]
        /\ calls[c].decodes[2] = [key |-> "json", value |-> "json"]
        /\ calls[c].clones = 2

\* C27: a settled void decode has settled with undefined if the call resolved and
\* with the call's error if the call was rejected, never the other way round, and
\* it has made no clone and read no body: the clones made are those of the other
\* decode methods.
C27_VoidDecode ==
    \A c \in CallNames :
        calls[c].state = "issued" =>
            /\ \A n \in Decoded(c) :
                   calls[c].decodes[n].key = "void" =>
                       /\ CallSettled(c)
                       /\ calls[c].decodes[n].value = "undefined" <=> calls[c].outcome = "resolved"
                       /\ calls[c].outcome # "resolved" =>
                              calls[c].decodes[n].value = calls[c].outcome
            /\ calls[c].clones =
                   Cardinality({n \in Decoded(c) :
                                    calls[c].decodes[n].key # "void"
                                        /\ calls[c].outcome = "resolved"})
            /\ ~calls[c].bodyUsed

\* C27 witness: .void() settled with undefined on a resolved call, with no clone made.
C27_Witness ==
    \E c \in CallNames :
        /\ calls[c].state = "issued"
        /\ calls[c].outcome = "resolved"
        /\ calls[c].decodes = <<[key |-> "void", value |-> "undefined"]>>
        /\ calls[c].clones = 0

\* An error was raised in attempt k: its promise was rejected (by the URL
\* constructor, the request hook, the transport or the timer), or the
\* classification hook threw on its result.
Raised(k) ==
    \/ p0[k].st = "rejected"
    \/ p1[k].st = "fulfilled" /\ p2[k].st = "rejected"

\* The call was rejected, or resolved with a result the failure hook returned.
Delivered ==
    \/ p3[0].st = "rejected"
    \/ /\ p3[0].st = "fulfilled"
       /\ p3[0].val.kind = "Response"
       /\ p3[0].val.from = "onFailure"

\* C28: once an error was raised in any attempt, the call is rejected or resolved
\* with a result returned by the failure hook: it is not pending and has not
\* resolved with a transport's result or with nothing; and a rejection of the
\* request hook's promise or of the transport's that is still on its way leads to
\* that.
C28_NoSilentSuppression ==
    /\ [](\A k \in Attempts : Raised(k) => Delivered)
    /\ (\E k \in Attempts : hook[k] = "rejecting" \/ transport[k] = "aborting") ~> Delivered

\* C28 witness: the classification hook threw on the result of a retry, and the
\* failure hook returned a result the call resolved with.
C28_Witness ==
    \E k \in Attempts \ {0} :
        /\ p1[k].st = "fulfilled"
        /\ p2[k].st = "rejected"
        /\ p2[k].val.kind = "ResponseError"
        /\ p3[0] = Fulfilled(Substitute)

\* C30: a retry is started for a result only if the classification hook classifies
\* that result as a failure: no retry delay is started, and no further attempt
\* made, for a result the hook accepts.
C30_RetryOnlyClassifiedFailures ==
    \A k \in Attempts :
        retryTimer[k] # "none" =>
            /\ p0[k].st = "fulfilled"
            /\ OnResponse(p0[k].val).st = "rejected"

\* Attempt k ended with TimeoutError, with the AbortError of its cancelled transport
\* or with a network error of the transport.
EndedWithError(k) ==
    p0[k] \in {Rejected(TimeoutError), Rejected(AbortError), Rejected(NetworkError)}

\* Nothing of a retry of attempt k exists: the retry step passed the rejection on
\* without starting a delay, no later attempt was materialized and no transport
\* was invoked for one.
NotRetried(k) ==
    /\ p1[k] = p0[k]
    /\ retryTimer[k] = "none"
    /\ started <= k + 1
    /\ \A j \in Attempts : j > k => (~dispatched[j].sent /\ transport[j] = "idle")

\* C31 as stated: once an attempt has ended with TimeoutError, with a
\* cancellation or with a network error, the attempt is not retried and no
\* transport invocation is made for the call any more.
C31_NoInvocationAfterError ==
    [][\A k \in Attempts :
           /\ EndedWithError(k) => (p0'[k] = p0[k] /\ Invocations' = Invocations)
           /\ EndedWithError(k)' => NotRetried(k)']_vars

\* C31: an attempt that ended with TimeoutError, with a cancellation or with a
\* network error keeps that outcome and is not retried: no retry delay is started
\* for it, no further attempt is made and no transport is invoked for one, in the
\* step that ends it and in every step after.  The one transport invocation that
\* can follow is the attempt's own, when its request hook completes after the
\* timer has fired, and it is made with a triggered token.
C31_ErrorsNotRetried ==
    [][\A k \in Attempts :
           /\ EndedWithError(k) =>
                  /\ p0'[k] = p0[k]
                  /\ \A j \in Attempts :
                         (dispatched'[j].sent /\ ~dispatched[j].sent) =>
                             /\ j = k
                             /\ p0[k] = Rejected(TimeoutError)
                             /\ dispatched'[j].aborted
           /\ EndedWithError(k)' => NotRetried(k)']_vars

\* C31 witness: a retry timed out although its transport, which ignores its token,
\* answered with a transient status afterwards.
C31_Witness ==
    \E k \in Attempts \ {0} :
        /\ p0[k] = Rejected(TimeoutError)
        /\ transport[k] = "responded"
        /\ k < 2
        /\ ~options.retry.custom

\* C32: every transport invocation of a call, retries included, follows the
\* materialization of its own attempt and a completed run of the request hook of
\* that attempt: fetch was called at most once per attempt and hook run, with the
\* options object resolved for that attempt; once the current attempt is
\* dispatched, hook runs, attempts and invocations are equal in number; and the
\* resolved options of the attempts are pairwise distinct objects with pairwise
\* distinct header and query containers.
C32_OwnMaterializationAndHook ==
    \A c \in CallNames :
        calls[c].state = "issued" =>
            LET r == calls[c] IN
            /\ Len(r.resolved) = r.attempt + 1
            /\ Len(r.fetched) <= r.hookRuns
            /\ r.hookRuns <= Len(r.resolved)
            /\ r.sent => (Len(r.fetched) = r.attempt + 1 /\ r.hookRuns = r.attempt + 1)
            /\ \A n \in 1..Len(r.fetched) : r.fetched[n] = r.resolved[n]
            /\ \A m, n \in 1..Len(r.resolved) :
                   m # n =>
                       /\ r.resolved[m] # r.resolved[n]
                       /\ Deref(heap, r.resolved[m]).headers # Deref(heap, r.resolved[n]).headers
                       /\ Deref(heap, r.resolved[m]).params # Deref(heap, r.resolved[n]).params

\* C32 witness: the second retry of a call has been dispatched.
C32_Witness ==
    \E c \in CallNames :
        /\ calls[c].state = "issued"
        /\ calls[c].attempt = 2
        /\ calls[c].sent

\* C33: a retry is materialized from the configuration the first attempt started
\* from: before its request hook has run, its headers are those of that
\* configuration, without what the hook of an earlier attempt set, and the token
\* its timeout listens to is the caller's, not the internal token of an earlier
\* attempt.
C33_RetryFromSameConfiguration ==
    \A k \in Attempts \ {0} :
        k < started =>
            /\ hook[k] = "pending" => headers[k] = NoHeaders
            /\ timer[k] # "none" => listen[k] = options.signal

\* The runs of options.onResponse so far: one at each level of the call whose
\* retry step has passed on a result.
ClassificationRuns == Cardinality({j \in Attempts : p1[j].st = "fulfilled"})

\* The runs of the caller's success and failure hooks so far: at each level, the
\* success hook on a classified result and the failure hook on an error.
FinalHookRuns ==
    Cardinality({j \in Attempts : p2[j].st = "fulfilled" /\ options.onSuccess # "none"})
        + Cardinality({j \in Attempts : p2[j].st = "rejected" /\ options.onFailure # "none"})

\* C34: when a call has settled, the classification hook has run once, on the
\* final result, and the success hook or the failure hook has run once, however
\* many retries came before.
C34_HooksRunOncePerCall ==
    p3[0].st # "pending" =>
        /\ ClassificationRuns <= 1
        /\ FinalHookRuns <= 1

\* C35: a transport invocation started after the caller's token was triggered is
\* given a triggered token.
C35_NoDispatchWithLiveToken ==
    [][\A k \in Attempts :
           (userAborted /\ ~dispatched[k].sent /\ dispatched'[k].sent) =>
               dispatched'[k].aborted]_vars

\* The results of the transport a settled promise holds: the value it is
\* fulfilled with, or the response its ResponseError carries.
Carried(p) ==
    IF p.st = "fulfilled" /\ p.val.kind = "Response" /\ p.val.from = "transport"
    THEN {p.val}
    ELSE IF p.st = "rejected" /\ p.val.kind = "ResponseError" THEN {p.val.response}
    ELSE {}

\* C36: the result of attempt k carries the resolved options of attempt k and, in
\* the variant with retries, attempt number k, from the moment the attempt's
\* promise is fulfilled with it; it is never changed afterwards, and every result
\* that the retry step, the hooks, a ResponseError or the caller hold is the
\* result of the attempt it names, as the transport step left it.
C36_ResultMetadata ==
    [][/\ \A k \in Attempts :
              /\ p0[k].st = "fulfilled" => p0'[k] = p0[k]
              /\ p0'[k].st = "fulfilled" =>
                     /\ p0'[k].val.options = k
                     /\ options.version = 2 => p0'[k].val.attempt = k
       /\ \A k \in Attempts :
              \A r \in Carried(p1'[k]) \cup Carried(p2'[k]) \cup Carried(p3'[k]) :
                  /\ r.options \in Attempts
                  /\ r.options >= k
                  /\ p0'[r.options] = Fulfilled(r)]_vars

\* C36 witness: a call resolved with the result of its second retry, which carries
\* attempt number 2.
C36_Witness ==
    /\ p3[0].st = "fulfilled"
    /\ p3[0].val.kind = "Response"
    /\ p3[0].val.from = "transport"
    /\ p3[0].val.attempt = 2
    /\ p3[0].val.options = 2
    /\ p0[0].val.attempt = 0

\* What the transport is given apart from the token: method, target, body, and the
\* headers as the values of each name in order (Headers keeps no order of names).
Wire(d) ==
    [method |-> d.method, path |-> d.path, query |-> d.query,
     headers |-> [name \in Names(d.headers) |-> HeaderGet(d.headers, name)],
     body |-> d.body]

\* C37: request() re-issued with the options attached to a result resolves
\* options with the method, path fragment, query entries, headers and body of the
\* options it was given, each once; and what the re-issued call dispatches, after
\* its request hook has run again, is what the attempt that produced the result
\* dispatched (unless the caller called a decode method in between, which writes
\* the accept header).
C37_ReissueSameRequest ==
    [][\A c \in CallNames :
           calls[c].state = "issued" =>
               /\ calls'[c].reissues # calls[c].reissues =>
                      /\ Wire(Resolved(heap', calls'[c].options))
                             = Wire(Resolved(heap, calls[c].options))
                      /\ Resolved(heap', calls[c].options) = Resolved(heap, calls[c].options)
                      /\ Resolved(heap, calls[c].options).method = "get"
               /\ (/\ calls[c].reissues > 0
                   /\ ~calls[c].sent /\ calls'[c].sent
                   /\ calls[c].decoded => calls[c].early) =>
                      Wire(calls'[c].dispatched) = Wire(calls[c].dispatched)]_vars

\* C37 witness: a call with a path fragment, query entries, headers and a JSON
\* payload was dispatched again after its hook re-issued it twice.
C37_Witness ==
    \E c \in CallNames :
        /\ calls[c].state = "issued"
        /\ calls[c].reissues = 2
        /\ calls[c].sent
        /\ calls[c].dispatched.path # <<>>
        /\ calls[c].dispatched.query # <<>>
        /\ Len(calls[c].dispatched.headers) > 2
        /\ calls[c].dispatched.body = "json-text"

\* C38: in a call that is not retried, a classified result goes to the success
\* hook alone: the call resolves with it, or rejects with what the success hook
\* threw, which the failure hook does not get; an error of the classification hook
\* or of the attempt goes to the failure hook alone: the call settles with what
\* the failure hook returned or threw, and the success hook does not run on a
\* substitute.
C38_ExactlyOneFinalHook ==
    (retryTimer[0] = "none" /\ p2[0].st # "pending") =>
        /\ p2[0].st = "fulfilled" =>
               p3[0] = IF options.onSuccess = "throws" THEN Rejected(SuccessError) ELSE p2[0]
        /\ p2[0].st = "rejected" =>
               p3[0] = CASE options.onFailure \in {"returnResult", "returnPromise"} ->
                                Fulfilled(Substitute)
                         [] options.onFailure = "throwOther" -> Rejected(CustomError(p2[0].val))
                         [] OTHER -> p2[0]

\* C38 witness: the success hook threw on a classified result and the call
\* rejected with its error although a recovering failure hook is configured.
C38_Witness ==
    /\ retryTimer[0] = "none"
    /\ p2[0].st = "fulfilled"
    /\ options.onSuccess = "throws"
    /\ options.onFailure = "returnResult"
    /\ p3[0] = Rejected(SuccessError)

\* The call has settled and has left nothing behind: no timeout timer is armed and
\* no retry delay is running.
Quiet ==
    /\ p3[0].st # "pending"
    /\ \A k \in Attempts : timer[k] # "armed" /\ retryTimer[k] # "pending"

\* C39: under the default retry policy, with a transport whose invocations settle
\* and hooks that return, a call invokes the transport at most 3 times and
\* eventually settles; from the moment it has settled no timeout timer is armed and
\* no retry delay is running.  (A request hook that throws in place of returning
\* leaves the timer armed until it fires; the call still settles and ends with
\* nothing pending.)
C39_CallTerminates ==
    /\ [](Invocations <= 3 /\ started <= 3)
    /\ []((p3[0].st # "pending" /\ options.onRequest # "throws") => Quiet)
    /\ [][Quiet => Quiet']_vars
    /\ (started > 0) ~> Quiet

\* C39 witness: a call settled after three transport invocations, with nothing
\* left pending.
C39_Witness ==
    /\ Quiet
    /\ Invocations = 3
    /\ ~options.retry.custom

====
